---------------------------- MODULE Spec2Model ----------------------------
(***************************************************************************)
(* A model of the plan-generation engine of the Personalized Training      *)
(* Assistant Agent:                                                        *)
(*   - TrainingAgent (src/training_agent.py): the plan store, the progress *)
(*     store and the three public operations on them;                      *)
(*   - the progression planner (_create_progression_plan,                  *)
(*     _get_weekly_focus);                                                 *)
(*   - the half-marathon pipeline (src/src/generate_full_plan.py): the     *)
(*     calendar of gerar_datas_treino, gerar_treino and the validator.     *)
(*                                                                         *)
(* Conventions.  Python values of several types are tagged records         *)
(* [kind |-> ..., val |-> ...]; a Python dict is a function whose DOMAIN   *)
(* is its key set.  A number the code gives with one decimal (an input, or *)
(* the result of round(x, 1)) is an integer number of tenths; an unrounded *)
(* float is an IEEE double (see "Floats").                                 *)
(***************************************************************************)
EXTENDS Integers, Sequences, FiniteSets, TLC

VARIABLES
    training_plans,   \* TrainingAgent.training_plans: user id -> plan
    user_data,        \* TrainingAgent.user_data: user id -> list of workouts
    clock,            \* datetime.now(), in half days since Epoch
    lastCall,         \* the last public call: operation, arguments, outcome
    generated,        \* history: user id -> plan its last successful generate returned
    accepted,         \* history: user id -> workouts of the update calls that returned True
    planner,          \* the progression planner's call: input and outcome
    pipeline,         \* the half-marathon pipeline: stage and plan
    threads           \* the calls of generate_training_plan running in parallel

vars == <<training_plans, user_data, clock, lastCall, generated, accepted,
          planner, pipeline, threads>>

-----------------------------------------------------------------------------
(* Bounds of the model. *)

\* update_progress calls accepted per user
MaxProgress == 2
\* half days the clock may advance
MaxClock == 1
\* the planner's inputs: weekly mileages 0.0, 0.5, ... MaxMileageSteps * 0.5 km
MaxMileageSteps == 50
\* ... and horizons from -1 to MaxWeeks weeks
MaxWeeks == 16
\* average paces of the half-marathon pipeline: 4.0, 4.1, ... min/km
MaxPaceSteps == 60

-----------------------------------------------------------------------------
(* Python values. *)

None == [kind |-> "none"]
Str(s) == [kind |-> "str", val |-> s]
Dict(d) == [kind |-> "dict", val |-> d]

\* bool(v) for the values used as user ids
Truthy(v) == ~(v.kind = "none" \/ (v.kind = "str" /\ v.val = ""))

\* d.get(k, default) on a dict d
Get(d, k, default) == IF k \in DOMAIN d THEN d[k] ELSE default

\* d[k] = v on a dict d
Put(d, k, v) == [x \in DOMAIN d \cup {k} |-> IF x = k THEN v ELSE d[x]]

EmptyDict == [x \in {} |-> None]

-----------------------------------------------------------------------------
(* Floats.  Python's float is the IEEE 754 double; the planner multiplies  *)
(* doubles and rounds the result to one decimal, so the model computes     *)
(* with doubles exactly.  A natural number is a sequence of limbs in base  *)
(* 2^13, least significant first; a Float is [m, e] with value m * 2^e,    *)
(* m a natural below 2^53 + 1.  Only finite non-negative values occur      *)
(* (FitnessSnapshot: all numeric fields are finite and non-negative).      *)

Limb(x, i) == IF i <= Len(x) THEN x[i] ELSE 0

\* x without its leading zero limbs (zero is <<0>>)
TrimTo(x, nz) ==
    IF nz = {} THEN <<0>>
    ELSE SubSeq(x, 1, CHOOSE i \in nz : \A j \in nz : j <= i)

Trim(x) == TrimTo(x, {i \in 1..Len(x) : x[i] # 0})

RECURSIVE MulFrom(_, _, _, _)
MulFrom(x, m, i, carry) ==
    IF i > Len(x) THEN <<carry>>
    ELSE LET p == x[i] * m + carry
         IN  <<p % 8192>> \o MulFrom(x, m, i + 1, p \div 8192)

\* x * m for a natural m below 2^13
MulSmall(x, m) == Trim(MulFrom(x, m, 1, 0))

RECURSIVE DivFrom(_, _, _, _)
DivFrom(x, d, i, rem) ==
    IF i = 0 THEN <<>>
    ELSE LET n == rem * 8192 + x[i]
         IN  DivFrom(x, d, i - 1, n % d) \o <<n \div d>>

\* x \div d and x % d for a natural d in 1..2^13
DivSmall(x, d) == Trim(DivFrom(x, d, Len(x), 0))

RECURSIVE RemFrom(_, _, _, _)
RemFrom(x, d, i, rem) ==
    IF i = 0 THEN rem ELSE RemFrom(x, d, i - 1, (rem * 8192 + x[i]) % d)

RemSmall(x, d) == RemFrom(x, d, Len(x), 0)

RECURSIVE AddFrom(_, _, _, _, _)
AddFrom(x, y, i, n, carry) ==
    IF i > n THEN <<carry>>
    ELSE LET t == Limb(x, i) + Limb(y, i) + carry
         IN  <<t % 8192>> \o AddFrom(x, y, i + 1, n, t \div 8192)

AddBig(x, y) ==
    Trim(AddFrom(x, y, 1, IF Len(x) >= Len(y) THEN Len(x) ELSE Len(y), 0))

\* x * y
RECURSIVE BigMulFrom(_, _, _)
BigMulFrom(x, y, i) ==
    IF i > Len(y) THEN <<0>>
    ELSE AddBig(MulSmall(x, y[i]), <<0>> \o BigMulFrom(x, y, i + 1))

BigMul(x, y) == BigMulFrom(x, y, 1)

RECURSIVE SmallBitLen(_)
SmallBitLen(n) == IF n = 0 THEN 0 ELSE 1 + SmallBitLen(n \div 2)

\* the number of bits of a trimmed x (0 for zero)
BitLen(x) == 13 * (Len(x) - 1) + SmallBitLen(x[Len(x)])

\* x \div 2^t
ShiftRight(x, t) ==
    IF t \div 13 >= Len(x) THEN <<0>>
    ELSE DivSmall(SubSeq(x, (t \div 13) + 1, Len(x)), 2 ^ (t % 13))

\* x % 2^t # 0
LostBits(x, t) ==
    \/ \E i \in 1..Len(x) : i <= t \div 13 /\ x[i] # 0
    \/ (t \div 13) < Len(x) /\ x[(t \div 13) + 1] % (2 ^ (t % 13)) # 0

IsOdd(x) == x[1] % 2 = 1

\* x / 2^s for s >= 1, rounded to the nearest natural, a tie to the even
\* one; sticky says that x itself was already cut short of the exact value
RoundUp(q, guard, rest) ==
    IF guard /\ (rest \/ IsOdd(q)) THEN AddBig(q, <<1>>) ELSE q

RoundShift(x, s, sticky) ==
    RoundUp(ShiftRight(x, s), IsOdd(ShiftRight(x, s - 1)),
            LostBits(x, s - 1) \/ sticky)

\* the double nearest to x * 2^e (round to nearest, ties to even), for x
\* of len bits
RoundToBits(x, e, sticky, len) ==
    IF len <= 53 THEN [m |-> x, e |-> e]
    ELSE [m |-> RoundShift(x, len - 53, sticky), e |-> e + (len - 53)]

RoundToDouble(x, e, sticky) == RoundToBits(x, e, sticky, BitLen(x))

\* a * b on doubles
FloatMul(a, b) == RoundToDouble(BigMul(a.m, b.m), a.e + b.e, FALSE)

\* the double of the decimal t / 10 (a literal such as 20.5, or an int):
\* t * 2^60 / 10, rounded
TenthOf(n) == RoundToDouble(DivSmall(n, 10), -60, RemSmall(n, 10) # 0)

FromTenths(t) ==
    IF t = 0 THEN [m |-> <<0>>, e |-> 0]
    ELSE TenthOf(MulSmall(<<0, 0, 0, 0, 256>>, t))

\* the value of a natural of at most three limbs
ToInt(x) == Limb(x, 1) + 8192 * Limb(x, 2) + 8192 * 8192 * Limb(x, 3)

\* round(x, 1), in tenths: Python rounds the double's exact value to one
\* decimal, a tie to the even digit (values below 2^52, so x.e < 0)
Round1(x) ==
    IF BitLen(x.m) = 0 THEN 0
    ELSE ToInt(RoundShift(MulSmall(x.m, 10), -x.e, FALSE))

\* the literals 1.1 and 0.8
GrowthFactor == FromTenths(11)
RecoveryFactor == FromTenths(8)

\* a 20% weekly increase, and a recovery week at half the level
TimesGrowthFast(x) == FloatMul(x, FromTenths(12))
TimesRecoveryHalf(x) == FloatMul(x, FromTenths(5))

\* current_mileage * 1.1 and current_mileage * 0.8
TimesGrowth(x) == FloatMul(x, GrowthFactor)
TimesRecovery(x) == FloatMul(x, RecoveryFactor)

\* Sums, differences, quotients and comparisons of doubles, used by the
\* half-marathon pipeline.

RECURSIVE Zeros(_)
Zeros(n) == IF n <= 0 THEN <<>> ELSE <<0>> \o Zeros(n - 1)

\* x * 2^t
ShiftLeft(x, t) == Trim(Zeros(t \div 13) \o MulFrom(x, 2 ^ (t % 13), 1, 0))

\* x < y and x <= y on trimmed naturals
BigLess(x, y) ==
    IF Len(x) # Len(y) THEN Len(x) < Len(y)
    ELSE \E i \in 1..Len(x) :
             x[i] < y[i] /\ \A j \in (i + 1)..Len(x) : x[j] = y[j]

BigLeq(x, y) == ~BigLess(y, x)

RECURSIVE SubFrom(_, _, _, _)
SubFrom(x, y, i, borrow) ==
    IF i > Len(x) THEN <<>>
    ELSE LET t == x[i] - Limb(y, i) - borrow
         IN  <<t % 8192>> \o SubFrom(x, y, i + 1, IF t < 0 THEN 1 ELSE 0)

\* x - y for x >= y
SubBig(x, y) == Trim(SubFrom(x, y, 1, 0))

\* Long division, a limb of the quotient at a time.  The divisor d is
\* normalised: its top limb is at least 2^12.  cur is below d * 2^13.

\* the quotient of the top limbs of cur by the top limb of d: cur \div d, or
\* up to 2 more
QuotEstimate(cur, d) ==
    IF (Limb(cur, Len(d) + 1) * 8192 + Limb(cur, Len(d))) \div d[Len(d)] > 8191
    THEN 8191
    ELSE (Limb(cur, Len(d) + 1) * 8192 + Limb(cur, Len(d))) \div d[Len(d)]

QuotCorrect(cur, d, q) ==
    IF BigLeq(MulSmall(d, q), cur) THEN q
    ELSE IF BigLeq(MulSmall(d, q - 1), cur) THEN q - 1
    ELSE q - 2

\* cur \div d
QuotDigit(cur, d) == QuotCorrect(cur, d, QuotEstimate(cur, d))

PushDigit(digit, rest) == [q |-> <<digit>> \o rest.q, r |-> rest.r]

\* the division of the limbs n[1..i] below the running remainder rem; the
\* digits of the quotient come most significant first
RECURSIVE DivBigFrom(_, _, _, _)
DivBigFrom(n, d, i, rem) ==
    IF i = 0 THEN [q |-> <<>>, r |-> rem]
    ELSE LET cur == Trim(<<n[i]>> \o rem)
             digit == QuotDigit(cur, d)
         IN  PushDigit(digit,
                       DivBigFrom(n, d, i - 1, SubBig(cur, MulSmall(d, digit))))

Reverse(x) == [i \in 1..Len(x) |-> x[Len(x) + 1 - i]]

\* the quotient and the remainder after a division of operands scaled by 2^k
QuotRem(res, k) == [q |-> Trim(Reverse(res.q)), r |-> ShiftRight(res.r, k)]

DivNormalised(n, d, k) ==
    QuotRem(DivBigFrom(ShiftLeft(n, k), ShiftLeft(d, k),
                       Len(ShiftLeft(n, k)), <<0>>), k)

\* n \div d and n % d for a natural d >= 1
DivBig(n, d) == DivNormalised(n, d, 13 - SmallBitLen(d[Len(d)]))

\* the mantissas of a and b over the exponent e, the smaller of theirs
AlignedAt(a, b, e) ==
    [a |-> ShiftLeft(a.m, a.e - e), b |-> ShiftLeft(b.m, b.e - e), e |-> e]

Aligned(a, b) == AlignedAt(a, b, IF a.e <= b.e THEN a.e ELSE b.e)

LessAligned(al) == BigLess(al.a, al.b)

FloatLess(a, b) == LessAligned(Aligned(a, b))

EqAligned(al) == al.a = al.b

FloatEq(a, b) == EqAligned(Aligned(a, b))

AddAligned(al) == RoundToDouble(AddBig(al.a, al.b), al.e, FALSE)

\* a + b
FloatAdd(a, b) == AddAligned(Aligned(a, b))

AbsDiffAligned(al) ==
    RoundToDouble(IF BigLess(al.a, al.b) THEN SubBig(al.b, al.a)
                  ELSE SubBig(al.a, al.b),
                  al.e, FALSE)

\* abs(a - b)
FloatAbsDiff(a, b) == AbsDiffAligned(Aligned(a, b))

RoundQuotient(res, e) == RoundToDouble(res.q, e, res.r # <<0>>)

\* a / 2^-s over b, s >= 0
DivShifted(a, b, s) == RoundQuotient(DivBig(ShiftLeft(a.m, s), b.m), a.e - b.e - s)

\* a / b for b # 0: the quotient of the mantissas taken to at least 56 bits
FloatDiv(a, b) ==
    IF BitLen(a.m) = 0 THEN a
    ELSE DivShifted(a, b, IF 56 + BitLen(b.m) - BitLen(a.m) > 0
                          THEN 56 + BitLen(b.m) - BitLen(a.m) ELSE 0)

\* float(n) for an int n below 2^13, and int(x)
FromInt(n) == [m |-> <<n>>, e |-> 0]

Trunc(x) ==
    IF x.e >= 0 THEN ToInt(ShiftLeft(x.m, x.e)) ELSE ToInt(ShiftRight(x.m, -x.e))

-----------------------------------------------------------------------------
(* The progression planner. *)

PhaseLabels == {"base_building", "strength_building", "peak_training", "taper"}

\* the literals 0.3, 0.7 and 0.9
BaseFraction == FromTenths(3)
StrengthFraction == FromTenths(7)
PeakFraction == FromTenths(9)

\* week < total_weeks * fraction
WeekBefore(week, total_weeks, fraction) ==
    FloatLess(FromInt(week), FloatMul(FromInt(total_weeks), fraction))

\* the same with <= for <
WeekUpTo(week, total_weeks, fraction) ==
    ~FloatLess(FloatMul(FromInt(total_weeks), fraction), FromInt(week))

\* phases that include the week at the boundary
GetWeeklyFocusInclusive(week, total_weeks) ==
    IF WeekUpTo(week, total_weeks, BaseFraction) THEN "base_building"
    ELSE IF WeekUpTo(week, total_weeks, StrengthFraction) THEN "strength_building"
    ELSE IF WeekUpTo(week, total_weeks, PeakFraction) THEN "peak_training"
    ELSE "taper"

\* _get_weekly_focus: week < total_weeks * 0.3, 0.7, 0.9
GetWeeklyFocus(week, total_weeks) ==
    IF WeekBefore(week, total_weeks, BaseFraction) THEN "base_building"
    ELSE IF WeekBefore(week, total_weeks, StrengthFraction) THEN "strength_building"
    ELSE IF WeekBefore(week, total_weeks, PeakFraction) THEN "peak_training"
    ELSE "taper"

\* week % 4 == 3
IsRecoveryWeek(week) == week % 4 = 3

\* a loop that leaves the recovery weeks out of the list
RECURSIVE ProgressionLoopSkippingRecovery(_, _, _)
ProgressionLoopSkippingRecovery(week, weeks, current_mileage) ==
    IF week >= weeks THEN <<>>
    ELSE IF IsRecoveryWeek(week)
    THEN ProgressionLoopSkippingRecovery(week + 1, weeks, current_mileage)
    ELSE <<[week |-> week + 1,
            target_mileage |-> Round1(TimesGrowth(current_mileage)),
            focus |-> GetWeeklyFocus(week, weeks)]>>
         \o ProgressionLoopSkippingRecovery(week + 1, weeks,
                                            TimesGrowth(current_mileage))

\* the loop of _create_progression_plan from 0-based week `week` on: the
\* entries it appends; target_mileage is in tenths
RECURSIVE ProgressionLoop(_, _, _)
RECURSIVE ProgressionWeek(_, _, _, _)

\* a loop body that advances current_mileage in the recovery weeks too
ProgressionWeekCompounding(week, weeks, current_mileage, mileage) ==
    <<[week |-> week + 1,
       target_mileage |-> Round1(mileage),
       focus |-> GetWeeklyFocus(week, weeks)]>>
    \o ProgressionLoop(week + 1, weeks, mileage)

\* one pass of the loop body, mileage being the week's mileage
ProgressionWeek(week, weeks, current_mileage, mileage) ==
    <<[week |-> week + 1,
       target_mileage |-> Round1(mileage),
       focus |-> GetWeeklyFocus(week, weeks)]>>
    \o ProgressionLoop(week + 1, weeks,
                       IF IsRecoveryWeek(week) THEN current_mileage ELSE mileage)

ProgressionLoop(week, weeks, current_mileage) ==
    IF week >= weeks THEN <<>>
    ELSE ProgressionWeek(week, weeks, current_mileage,
                         IF IsRecoveryWeek(week)
                         THEN TimesRecovery(current_mileage)
                         ELSE TimesGrowth(current_mileage))

\* fitness.get('weekly_mileage', 10), in tenths
DefaultWeeklyMileage == 100

\* a planner that always plans at least twelve weeks
PlanAtLeastTwelveWeeks(fitness, weeks) ==
    ProgressionLoop(0, IF weeks < 12 THEN 12 ELSE weeks,
                    FromTenths(Get(fitness, "weekly_mileage", 100)))

\* _create_progression_plan(fitness, weeks)
CreateProgressionPlan(fitness, weeks) ==
    ProgressionLoop(0, weeks,
                    FromTenths(Get(fitness, "weekly_mileage", DefaultWeeklyMileage)))

\* _create_weekly_schedule(fitness, weeks)
BaseSchedule ==
    [beginner |-> [runs_per_week |-> 3, easy_runs |-> 2, hard_runs |-> 1, rest_days |-> 4],
     intermediate |-> [runs_per_week |-> 4, easy_runs |-> 2, hard_runs |-> 2, rest_days |-> 3],
     advanced |-> [runs_per_week |-> 5, easy_runs |-> 3, hard_runs |-> 2, rest_days |-> 2]]

CreateWeeklySchedule(fitness, weeks) ==
    Get(BaseSchedule, Get(fitness, "fitness_level", "beginner"), BaseSchedule["beginner"])

-----------------------------------------------------------------------------
(* Dates.  A date string is the sequence of its characters. *)

Digits == {"0", "1", "2", "3", "4", "5", "6", "7", "8", "9"}

DigitVal(c) ==
    CASE c = "0" -> 0 [] c = "1" -> 1 [] c = "2" -> 2 [] c = "3" -> 3
      [] c = "4" -> 4 [] c = "5" -> 5 [] c = "6" -> 6 [] c = "7" -> 7
      [] c = "8" -> 8 [] c = "9" -> 9

RECURSIVE NumVal(_)
NumVal(cs) ==
    IF cs = <<>> THEN 0
    ELSE 10 * NumVal(SubSeq(cs, 1, Len(cs) - 1)) + DigitVal(cs[Len(cs)])

AllDigits(cs) == \A i \in 1..Len(cs) : cs[i] \in Digits

\* the positions of "-" in a string
Dashes(cs) == {i \in 1..Len(cs) : cs[i] = "-"}

IsLeap(y) == y % 4 = 0 /\ (y % 100 # 0 \/ y % 400 = 0)

DaysInMonth(y, m) ==
    IF m = 2 THEN (IF IsLeap(y) THEN 29 ELSE 28)
    ELSE IF m \in {4, 6, 9, 11} THEN 30 ELSE 31

RECURSIVE DaysBeforeMonth(_, _)
DaysBeforeMonth(y, m) ==
    IF m = 1 THEN 0 ELSE DaysBeforeMonth(y, m - 1) + DaysInMonth(y, m - 1)

\* date(y, m, d).toordinal(): days since 0001-01-01, plus one
ToOrdinal(y, m, d) ==
    LET y1 == y - 1
    IN  y1 * 365 + (y1 \div 4) - (y1 \div 100) + (y1 \div 400)
        + DaysBeforeMonth(y, m) + d

\* datetime.strptime(target_date, '%Y-%m-%d'): the day it returns (at
\* midnight), or "ValueError".  %Y is four digits; %m is 1..12 and %d is
\* 1..31 in one or two digits (%d also as a space and a digit); the whole
\* string must match; the day must exist in the month; year 0 is rejected.
DateOf(y, m, d) ==
    IF y >= 1 /\ m \in 1..12 /\ d \in 1..DaysInMonth(y, m)
    THEN [kind |-> "datetime", day |-> ToOrdinal(y, m, d)]
    ELSE [kind |-> "ValueError"]

StrptimeFields(ys, ms, dt) ==
    IF /\ Len(ys) = 4 /\ AllDigits(ys)
       /\ Len(ms) \in {1, 2} /\ AllDigits(ms)
       /\ Len(dt) \in {1, 2} /\ AllDigits(dt)
    THEN DateOf(NumVal(ys), NumVal(ms), NumVal(dt))
    ELSE [kind |-> "ValueError"]

First(s) == CHOOSE i \in s : \A j \in s : i <= j
Last(s) == CHOOSE i \in s : \A j \in s : j <= i

\* %d also matches a space and a digit
DayField(dd) == IF Len(dd) = 2 /\ dd[1] = " " THEN SubSeq(dd, 2, 2) ELSE dd

StrptimeAt(cs, ds) ==
    IF Cardinality(ds) # 2 THEN [kind |-> "ValueError"]
    ELSE StrptimeFields(SubSeq(cs, 1, First(ds) - 1),
                        SubSeq(cs, First(ds) + 1, Last(ds) - 1),
                        DayField(SubSeq(cs, Last(ds) + 1, Len(cs))))

Strptime(cs) == StrptimeAt(cs, Dashes(cs))

\* the first instant of the model's clock: 2025-01-01 00:00
Epoch == ToOrdinal(2025, 1, 1)

\* datetime.now() at clock c: its day and whether it is past midnight
NowDay(c) == Epoch + (c \div 2)
NowPastMidnight(c) == c % 2 = 1

\* a difference of calendar dates that forgets the time of day
DeltaDaysByDate(target_day, c) == target_day - NowDay(c)

\* (target_datetime - datetime.now()).days: timedelta normalises to whole
\* days rounding down, so any time past midnight costs one day
DeltaDays(target_day, c) ==
    target_day - NowDay(c) - (IF NowPastMidnight(c) THEN 1 ELSE 0)

\* ... // 7 (Python's floor division)
WeeksToMarathon(target_day, c) ==
    LET days == DeltaDays(target_day, c)
    IN  IF days >= 0 THEN days \div 7 ELSE -((-days + 6) \div 7)

-----------------------------------------------------------------------------
(* TrainingAgent: the inputs the model draws. *)

\* user ids: two users, the empty string and None
UserIds == {Str("u1"), Str("u2"), Str(""), None}

\* target dates: 12 weeks after the Epoch (unpadded month), 13 weeks after
\* it, a week before it, not a date, a day that does not exist
TargetDates ==
    { <<"2", "0", "2", "5", "-", "3", "-", "2", "6">>,
      <<"2", "0", "2", "5", "-", "0", "4", "-", "0", "2">>,
      <<"2", "0", "2", "4", "-", "1", "2", "-", "2", "5">>,
      <<"i", "n", "v", "a", "l", "i", "d", "-", "d", "a", "t", "e">>,
      <<"2", "0", "2", "5", "-", "0", "2", "-", "3", "0">> }

\* fitness snapshots: weekly mileage 20.0 km, an empty snapshot (the
\* defaults apply), and a value that is not a dictionary
FitnessInputs ==
    { Dict([fitness_level |-> "intermediate", weekly_mileage |-> 200]),
      Dict(EmptyDict),
      Str("invalid_data") }

\* the dates among them that strptime accepts and that lie ahead
FutureDates ==
    { <<"2", "0", "2", "5", "-", "3", "-", "2", "6">>,
      <<"2", "0", "2", "5", "-", "0", "4", "-", "0", "2">> }

\* the calls of generate_training_plan: for the two users, every future date
\* with every snapshot and every other date with one snapshot; and one call
\* for each user id that is empty or missing
GenerateInputs ==
    { <<u, d, f>> : u \in {Str("u1"), Str("u2")}, d \in FutureDates, f \in FitnessInputs }
    \cup { <<u, d, Dict(EmptyDict)>> :
             u \in {Str("u1"), Str("u2")}, d \in TargetDates \ FutureDates }
    \cup { <<u, <<"2", "0", "2", "5", "-", "0", "4", "-", "0", "2">>,
           Dict(EmptyDict)>> : u \in {Str(""), None} }

\* workout records, and two values that are not dictionaries
WorkoutInputs ==
    { Dict([date |-> "2024-01-10", distance |-> 50]),
      Dict([date |-> "2024-01-12", distance |-> 60]),
      Str("invalid_data"),
      None }

\* the calls of update_progress: every workout value for the two users, and
\* one call for each user id that is empty or missing
UpdateInputs ==
    { <<u, w>> : u \in {Str("u1"), Str("u2")}, w \in WorkoutInputs }
    \cup { <<u, Dict([date |-> "2024-01-10", distance |-> 50])>> :
             u \in {Str(""), None} }

-----------------------------------------------------------------------------
(* TrainingAgent: the operations. *)

\* the minimum number of weeks generate_training_plan accepts
MinWeeks == 12

Raise(msg) == [kind |-> "raise", error |-> msg]
Return(v) == [kind |-> "return", value |-> v]

\* The parsed target dates, evaluated once:
\* ParseTargetDate(d) = Strptime(d).
ParsedDates == [d \in TargetDates |-> Strptime(d)]

ParseTargetDate(target_date) ==
    IF target_date \in DOMAIN ParsedDates THEN ParsedDates[target_date]
    ELSE Strptime(target_date)

\* the snapshots the planner is given: a weekly mileage (in tenths of a
\* km), or no weekly mileage at all
PlannerSnapshots ==
    { [weekly_mileage |-> 5 * k] : k \in 0..MaxMileageSteps }
    \cup { EmptyDict, [fitness_level |-> "advanced", weekly_mileage |-> 333] }

\* The progressions of the snapshots and horizons the calls above can reach,
\* evaluated once: PlannedProgression(f, w) = CreateProgressionPlan(f, w).
ProgressionTable ==
    [f \in {x.val : x \in {y \in FitnessInputs : y.kind = "dict"}}
            \cup PlannerSnapshots,
     w \in MinWeeks..(MinWeeks + 1) |-> CreateProgressionPlan(f, w)]

PlannedProgression(fitness, weeks) ==
    IF <<fitness, weeks>> \in DOMAIN ProgressionTable
    THEN ProgressionTable[fitness, weeks]
    ELSE CreateProgressionPlan(fitness, weeks)

\* generate_training_plan from line 67 on, weeks_to_marathon computed
GeneratePlan(user_id, target_date, current_fitness, weeks_to_marathon) ==
    IF weeks_to_marathon < MinWeeks
    THEN Raise("Need at least 12 weeks to prepare for marathon")
    ELSE IF current_fitness.kind # "dict"
    THEN Raise("AttributeError")
    ELSE Return([user_id |-> user_id,
                 target_date |-> target_date,
                 weeks_to_marathon |-> weeks_to_marathon,
                 weekly_schedule |->
                     CreateWeeklySchedule(current_fitness.val, weeks_to_marathon),
                 progression |->
                     PlannedProgression(current_fitness.val, weeks_to_marathon)])

\* generate_training_plan from the except clause on, target_datetime being
\* what strptime gave
GenerateParsed(user_id, target_date, current_fitness, c, target_datetime) ==
    IF target_datetime.kind = "ValueError"
    THEN Raise("Target date must be in YYYY-MM-DD format")
    ELSE GeneratePlan(user_id, target_date, current_fitness,
                      WeeksToMarathon(target_datetime.day, c))

\* generate_training_plan up to its store write: the outcome of the call
\* at clock c, a raised error or the plan it builds
GenerateOutcome(user_id, target_date, current_fitness, c) ==
    IF ~Truthy(user_id) THEN Raise("User ID cannot be empty")
    ELSE GenerateParsed(user_id, target_date, current_fitness, c,
                        ParseTargetDate(target_date))

\* a store that keeps the first plan of a user
StorePlanFirstOnly(plans, user_id, plan) ==
    IF user_id \in DOMAIN plans THEN plans ELSE Put(plans, user_id, plan)

\* a store that rebinds self.training_plans to a dict of this plan alone
StorePlanAlone(plans, user_id, plan) == Put(EmptyDict, user_id, plan)

\* self.training_plans[user_id] = plan
StorePlan(plans, user_id, plan) == Put(plans, user_id, plan)

\* a generate that clears the user's entry before it validates
PlansClearedOnFailure(plans, user_id, outcome) ==
    IF outcome.kind = "return" THEN Put(plans, user_id, outcome.value)
    ELSE [k \in DOMAIN plans \ {user_id} |-> plans[k]]

\* the store generate_training_plan leaves behind for an outcome
PlansAfterGenerate(plans, user_id, outcome) ==
    IF outcome.kind = "return" THEN StorePlan(plans, user_id, outcome.value)
    ELSE plans

\* get_training_plan: self.training_plans.get(user_id)
GetTrainingPlan(plans, user_id) == Get(plans, user_id, None)

\* an update that does not look for the user's plan
UpdateProgressResultWithoutPlan(plans, user_id, workout_data) ==
    workout_data.kind = "dict"

\* update_progress: the value it returns
UpdateProgressResult(plans, user_id, workout_data) ==
    IF user_id \notin DOMAIN plans THEN FALSE
    ELSE IF workout_data.kind # "dict" THEN FALSE
    ELSE TRUE

\* an update that creates the user's list before it checks anything
UserDataEntryFirst(plans, data, user_id, workout_data) ==
    IF UpdateProgressResult(plans, user_id, workout_data)
    THEN Put(data, user_id, Append(Get(data, user_id, <<>>), workout_data))
    ELSE Put(data, user_id, Get(data, user_id, <<>>))

\* an update that puts the new record first
UserDataPrepend(plans, data, user_id, workout_data) ==
    IF UpdateProgressResult(plans, user_id, workout_data)
    THEN Put(data, user_id, <<workout_data>> \o Get(data, user_id, <<>>))
    ELSE data

\* an update that rebinds self.user_data to the list of this user alone
UserDataOfUserAlone(plans, data, user_id, workout_data) ==
    IF UpdateProgressResult(plans, user_id, workout_data)
    THEN Put(EmptyDict, user_id, Append(Get(data, user_id, <<>>), workout_data))
    ELSE data

\* update_progress: the user_data it leaves behind
UserDataAfterUpdate(plans, data, user_id, workout_data) ==
    IF UpdateProgressResult(plans, user_id, workout_data)
    THEN Put(data, user_id, Append(Get(data, user_id, <<>>), workout_data))
    ELSE data

\* the number of progress records stored
RECURSIVE TotalRecords(_, _)
TotalRecords(data, keys) ==
    IF keys = {} THEN 0
    ELSE LET k == CHOOSE x \in keys : TRUE
         IN  Len(data[k]) + TotalRecords(data, keys \ {k})

Idle == [op |-> "none"]

GenerateTrainingPlan(user_id, target_date, current_fitness) ==
    LET outcome == GenerateOutcome(user_id, target_date, current_fitness, clock)
    IN  /\ training_plans' = PlansAfterGenerate(training_plans, user_id, outcome)
        /\ generated' = IF outcome.kind = "return"
                        THEN Put(generated, user_id, outcome.value)
                        ELSE generated
        /\ lastCall' = [op |-> "generate_training_plan",
                        user_id |-> user_id,
                        target_date |-> target_date,
                        outcome |-> outcome]
        /\ UNCHANGED <<user_data, clock, accepted, planner, pipeline, threads>>

CallGetTrainingPlan(user_id) ==
    /\ lastCall' = [op |-> "get_training_plan",
                    user_id |-> user_id,
                    outcome |-> Return(GetTrainingPlan(training_plans, user_id))]
    /\ UNCHANGED <<training_plans, user_data, clock, generated, accepted,
                   planner, pipeline, threads>>

UpdateProgress(user_id, workout_data) ==
    /\ TotalRecords(user_data, DOMAIN user_data) < MaxProgress
    /\ user_data' = UserDataAfterUpdate(training_plans, user_data, user_id, workout_data)
    /\ accepted' = IF UpdateProgressResult(training_plans, user_id, workout_data)
                   THEN Put(accepted, user_id,
                            Append(Get(accepted, user_id, <<>>), workout_data))
                   ELSE accepted
    /\ lastCall' = [op |-> "update_progress",
                    user_id |-> user_id,
                    workout_data |-> workout_data,
                    outcome |-> Return(UpdateProgressResult(training_plans, user_id,
                                                            workout_data))]
    /\ UNCHANGED <<training_plans, clock, generated, planner, pipeline, threads>>

\* time passes between calls
Tick ==
    /\ clock < MaxClock
    /\ clock' = clock + 1
    /\ lastCall' = Idle
    /\ UNCHANGED <<training_plans, user_data, generated, accepted,
                   planner, pipeline, threads>>

\* TrainingAgent.__init__
Init ==
    /\ training_plans = EmptyDict
    /\ user_data = EmptyDict
    /\ clock = 0
    /\ lastCall = Idle
    /\ generated = EmptyDict
    /\ accepted = EmptyDict
    /\ planner = [pc |-> "idle"]
    /\ pipeline = [stage |-> "idle"]
    /\ threads = [t \in {} |-> Idle]

Next ==
    \/ \E call \in GenerateInputs :
           GenerateTrainingPlan(call[1], call[2], call[3])
    \/ \E u \in UserIds : CallGetTrainingPlan(u)
    \/ \E call \in UpdateInputs : UpdateProgress(call[1], call[2])
    \/ Tick

Spec == Init /\ [][Next]_vars

-----------------------------------------------------------------------------
(* The progression planner called on its own, and through                  *)
(* generate_training_plan on a fresh agent.                                *)

PlannerWeeks == (-1)..MaxWeeks

\* self._create_progression_plan(fitness, weeks)
PlannerReturn ==
    /\ planner.pc = "called"
    /\ lastCall = Idle
    /\ planner' = [pc |-> "returned",
                   fitness |-> planner.fitness,
                   weeks |-> planner.weeks,
                   outcome |-> Return(CreateProgressionPlan(planner.fitness,
                                                            planner.weeks))]
    /\ UNCHANGED <<training_plans, user_data, clock, lastCall, generated,
                   accepted, pipeline, threads>>

\* generate_training_plan with the same snapshot, on the fresh agent
PlannerGenerate ==
    /\ planner.pc = "called"
    /\ lastCall = Idle
    /\ \E d \in TargetDates :
           GenerateTrainingPlan(Str("u1"), d, Dict(planner.fitness))

InitPlanner ==
    /\ training_plans = EmptyDict
    /\ user_data = EmptyDict
    /\ clock = 0
    /\ lastCall = Idle
    /\ generated = EmptyDict
    /\ accepted = EmptyDict
    /\ planner \in { [pc |-> "called", fitness |-> f, weeks |-> w] :
                     f \in PlannerSnapshots, w \in PlannerWeeks }
    /\ pipeline = [stage |-> "idle"]
    /\ threads = [t \in {} |-> Idle]

NextPlanner == PlannerReturn \/ PlannerGenerate

SpecPlanner == InitPlanner /\ [][NextPlanner]_vars

-----------------------------------------------------------------------------
(* Properties of the plan store and the progress store (Spec). *)

\* the plan the last successful generate_training_plan for u returned
LastGenerated(u) == Get(generated, u, None)

\* C1: get_training_plan(u) returns the plan returned by the most recent
\* successful generate_training_plan call for u, and None when no call for u
\* has succeeded, after any sequence of calls; get_training_plan itself
\* changes neither store.
C1_GetReturnsLastGenerated ==
    /\ [](/\ \A u \in UserIds :
                GetTrainingPlan(training_plans, u) = LastGenerated(u)
          /\ lastCall.op = "get_training_plan"
                => lastCall.outcome = Return(LastGenerated(lastCall.user_id)))
    /\ [][lastCall'.op = "get_training_plan"
            => UNCHANGED <<training_plans, user_data>>]_vars

\* a get that returns the plan u1 generated half a day in, while u2 has a
\* plan too and u1 has reported progress
C1_Witness ==
    /\ lastCall.op = "get_training_plan"
    /\ lastCall.user_id = Str("u1")
    /\ lastCall.outcome.value # None
    /\ Str("u2") \in DOMAIN training_plans
    /\ Str("u1") \in DOMAIN user_data
    /\ clock = 1
    /\ lastCall.outcome.value.weeks_to_marathon = MinWeeks

\* C2: update_progress(u, w) returns False when u has no stored plan or w
\* is not a dictionary, and then leaves training_plans and user_data as
\* they were (no entry for u appears in either store).
C2_RejectedUpdateChangesNothing ==
    [][(/\ lastCall'.op = "update_progress"
        /\ \/ lastCall'.user_id \notin DOMAIN training_plans
           \/ lastCall'.workout_data.kind # "dict")
       => /\ lastCall'.outcome = Return(FALSE)
          /\ UNCHANGED <<training_plans, user_data>>]_vars

\* an update for a user without a plan is rejected while another user has
\* a plan and progress records
C2_Witness ==
    /\ lastCall.op = "update_progress"
    /\ lastCall.user_id = Str("u2")
    /\ lastCall.workout_data.kind = "dict"
    /\ lastCall.outcome = Return(FALSE)
    /\ Str("u2") \notin DOMAIN training_plans
    /\ Str("u2") \notin DOMAIN user_data
    /\ Str("u1") \in DOMAIN user_data

\* C3: the progress list stored for u is exactly the sequence of records of
\* the update_progress(u, .) calls that returned True, in call order; each
\* such call appends its record as the last element and leaves the plans
\* alone.
C3_ProgressIsAcceptedRecords ==
    /\ [](user_data = accepted)
    /\ [][(lastCall'.op = "update_progress" /\ lastCall'.outcome = Return(TRUE))
            => /\ user_data' = Put(user_data, lastCall'.user_id,
                                   Append(Get(user_data, lastCall'.user_id, <<>>),
                                          lastCall'.workout_data))
               /\ Len(user_data'[lastCall'.user_id])
                      = Len(Get(user_data, lastCall'.user_id, <<>>)) + 1
               /\ UNCHANGED training_plans]_vars

\* a second, different record has just been accepted for a user
C3_Witness ==
    /\ lastCall.op = "update_progress"
    /\ lastCall.outcome = Return(TRUE)
    /\ Len(user_data[lastCall.user_id]) = 2
    /\ user_data[lastCall.user_id][1] # user_data[lastCall.user_id][2]
    /\ user_data[lastCall.user_id][2] = lastCall.workout_data

\* the target instant (midnight of the day) is less than 12 weeks, 84 days,
\* after the instant of clock c; in half days
FewerThan12Weeks(target_day, c) ==
    2 * (target_day - Epoch) < c + 2 * 7 * MinWeeks

InsufficientHorizon == Raise("Need at least 12 weeks to prepare for marathon")

\* C4: generate_training_plan with a non-empty user id and a well-formed
\* target date fewer than 12 whole weeks after the current time (a past date
\* included) raises the insufficient-horizon error, whatever the snapshot.
C4_ShortHorizonRaises ==
    (/\ lastCall.op = "generate_training_plan"
     /\ Truthy(lastCall.user_id)
     /\ Strptime(lastCall.target_date).kind = "datetime"
     /\ FewerThan12Weeks(Strptime(lastCall.target_date).day, clock))
    => lastCall.outcome = InsufficientHorizon

\* the date exactly 84 days after the Epoch is refused half a day later
C4_Witness ==
    /\ lastCall.op = "generate_training_plan"
    /\ lastCall.outcome = InsufficientHorizon
    /\ Strptime(lastCall.target_date).kind = "datetime"
    /\ Strptime(lastCall.target_date).day = Epoch + 7 * MinWeeks
    /\ clock = 1

\* C5: a generate_training_plan call that raises leaves training_plans and
\* user_data as they were; the plan stored for that user id before the call
\* is still the one get_training_plan returns.
C5_FailedGenerateChangesNothing ==
    [][(lastCall'.op = "generate_training_plan" /\ lastCall'.outcome.kind = "raise")
         => /\ UNCHANGED <<training_plans, user_data>>
            /\ GetTrainingPlan(training_plans', lastCall'.user_id)
                   = GetTrainingPlan(training_plans, lastCall'.user_id)]_vars

\* a call for a user who has a plan and progress records raises
C5_Witness ==
    /\ lastCall.op = "generate_training_plan"
    /\ lastCall.outcome = InsufficientHorizon
    /\ lastCall.user_id \in DOMAIN training_plans
    /\ lastCall.user_id \in DOMAIN user_data

-----------------------------------------------------------------------------
(* Properties of the progression planner (SpecPlanner). *)

\* the planner has returned for a horizon below the minimum
ShortPlannerCall == planner.pc = "returned" /\ planner.weeks < MinWeeks

\* the planner has returned for a horizon of at least the minimum
LongPlannerCall == planner.pc = "returned" /\ planner.weeks >= MinWeeks

\* C6 as stated: the progression planner called with weeks < 12 raises the
\* insufficient-horizon error and returns no progression, for every snapshot.
C6_ShortPlannerRaises ==
    ShortPlannerCall => planner.outcome = InsufficientHorizon

\* C6, amended: the progression planner called with weeks < 12 raises
\* nothing and returns one entry per week (none when weeks <= 0); the
\* 12-week minimum is enforced by generate_training_plan, which raises the
\* insufficient-horizon error before it calls the planner, so every stored
\* progression has at least 12 entries.
C6_ShortPlannerReturns ==
    /\ ShortPlannerCall
           => /\ planner.outcome.kind = "return"
              /\ Len(planner.outcome.value)
                     = (IF planner.weeks > 0 THEN planner.weeks ELSE 0)
    /\ (lastCall.op = "generate_training_plan" /\ lastCall.outcome.kind = "return")
           => /\ lastCall.outcome.value.weeks_to_marathon >= MinWeeks
              /\ Len(lastCall.outcome.value.progression) >= MinWeeks

\* the planner returned eleven entries for an eleven-week horizon
C6_Witness ==
    /\ ShortPlannerCall
    /\ planner.weeks = MinWeeks - 1
    /\ planner.outcome.kind = "return"
    /\ Len(planner.outcome.value) = MinWeeks - 1

\* C7: for weeks >= 12 and every snapshot the planner returns exactly
\* `weeks` entries numbered 1..weeks in order, each with a phase label from
\* PhaseLabels; the progression stored in a generated plan has exactly
\* weeks_to_marathon entries.
C7_OneLabelledEntryPerWeek ==
    /\ LongPlannerCall
           => /\ planner.outcome.kind = "return"
              /\ Len(planner.outcome.value) = planner.weeks
              /\ \A i \in 1..Len(planner.outcome.value) :
                     /\ planner.outcome.value[i].week = i
                     /\ planner.outcome.value[i].focus \in PhaseLabels
    /\ \A u \in DOMAIN training_plans :
           Len(training_plans[u].progression) = training_plans[u].weeks_to_marathon

\* a progression longer than the minimum that uses all four labels
C7_Witness ==
    /\ LongPlannerCall
    /\ planner.weeks > MinWeeks
    /\ Len(planner.outcome.value) = planner.weeks
    /\ {planner.outcome.value[i].focus : i \in 1..Len(planner.outcome.value)}
           = PhaseLabels

\* the progression the planner returned, and its targets in tenths of a km
Returned == IF planner.pc = "returned" THEN planner.outcome.value ELSE <<>>
Target(i) == Returned[i + 1].target_mileage

\* 0-based indexes of the returned weeks
Weeks == 0..(Len(Returned) - 1)

\* the last non-recovery week before week k >= 1
PriorNonRecovery(k) == IF IsRecoveryWeek(k - 1) THEN k - 2 ELSE k - 1

\* every recovery week is at most the week before it
RecoveryWeeksAreLower ==
    \A k \in Weeks : IsRecoveryWeek(k) => Target(k) <= Target(k - 1)

\* C8 as stated: on the returned targets, no non-recovery week exceeds 1.1
\* times the prior non-recovery week by more than 1e-6 (targets are whole
\* tenths, so by nothing at all), and every recovery week is at most the
\* week before it.
C8_GrowthCapOnReturnedTargets ==
    /\ \A k \in Weeks \ {0} :
           ~IsRecoveryWeek(k) => 10 * Target(k) <= 11 * Target(PriorNonRecovery(k))
    /\ RecoveryWeeksAreLower

\* C8, amended: for a non-negative weekly mileage, no non-recovery week's
\* returned target exceeds 1.1 times the prior non-recovery week's returned
\* target by more than 0.1 km (both are rounded to one decimal), and every
\* recovery week is at most the week before it.
C8_GrowthCapUpToRounding ==
    /\ \A k \in Weeks \ {0} :
           ~IsRecoveryWeek(k)
               => 10 * Target(k) <= 11 * Target(PriorNonRecovery(k)) + 10
    /\ RecoveryWeeksAreLower

\* a progression with three recovery weeks in which some non-recovery week
\* is above 1.1 times the prior non-recovery week's returned target
C8_Witness ==
    /\ LongPlannerCall
    /\ \E k \in Weeks \ {0} :
           /\ ~IsRecoveryWeek(k)
           /\ 10 * Target(k) > 11 * Target(PriorNonRecovery(k))
    /\ Target(11) < Target(10)

\* C9 as stated: for every pair of consecutive weeks the later target is at
\* most 1.10 times the earlier one; in particular the week after a recovery
\* week is at most 10% above the recovery week's target.
C9_ConsecutiveWeeksCap ==
    \A k \in Weeks \ {0} : 10 * Target(k) <= 11 * Target(k - 1)

\* C9, amended: for a non-negative weekly mileage, a week that follows a
\* non-recovery week is at most 1.1 times that week's target plus 0.1 km of
\* rounding; a week that follows a recovery week returns to 1.1 times the
\* level before the recovery, which is 1.375 times the recovery week's
\* target (to within 0.12 km of rounding), above the 10% cap whenever the
\* mileage is positive.
C9_CapExceptAfterRecovery ==
    \A k \in Weeks \ {0} :
        IF IsRecoveryWeek(k - 1)
        THEN /\ 1000 * Target(k) - 1375 * Target(k - 1) <= 1187
             /\ 1375 * Target(k - 1) - 1000 * Target(k) <= 1187
        ELSE 10 * Target(k) <= 11 * Target(k - 1) + 10

\* the week after the first recovery week is more than 30% above it
C9_Witness ==
    /\ LongPlannerCall
    /\ Target(3) > 0
    /\ 10 * Target(4) > 13 * Target(3)

\* the weekly mileage of the snapshot the planner was called with, in tenths
SnapshotMileage == Get(planner.fitness, "weekly_mileage", DefaultWeeklyMileage)

\* a and b differ by at most d
Near(a, b, d) == a - b <= d /\ b - a <= d

\* C17 as stated: on the returned targets, a recovery week's target equals
\* 0.8 times the previous week's target, and the week after a recovery week
\* is 1.1 times the target of the week before the recovery week.
C17_RecurrenceOnReturnedTargets ==
    /\ \A k \in Weeks : IsRecoveryWeek(k) => 10 * Target(k) = 8 * Target(k - 1)
    /\ \A k \in Weeks \ {0} :
           IsRecoveryWeek(k - 1) => 10 * Target(k) = 11 * Target(k - 2)

\* C17, amended: the returned targets follow the recurrence up to their
\* rounding to one decimal.  The first week is 1.1 times the snapshot's
\* weekly mileage to within 0.05 km; a recovery week (0-based week with
\* w mod 4 = 3) is 0.8 times the previous week's target to within 0.1 km;
\* every other week is 1.1 times the target of the last non-recovery week
\* before it to within 0.1 km, so the week after a recovery week continues
\* from the week before the recovery week, not from the recovery week.
C17_RecurrenceUpToRounding ==
    /\ 0 \in Weeks => Near(10 * Target(0), 11 * SnapshotMileage, 5)
    /\ \A k \in Weeks \ {0} :
           IF IsRecoveryWeek(k)
           THEN Near(10 * Target(k), 8 * Target(k - 1), 10)
           ELSE Near(10 * Target(k), 11 * Target(PriorNonRecovery(k)), 10)

\* the progression for 16 weeks from 20 km: weeks 3, 4 and 5 are 26.6, 21.3
\* and 29.3 km (0.8 * 26.6 = 21.28 and 1.1 * 26.6 = 29.26)
C17_Witness ==
    /\ LongPlannerCall
    /\ planner.weeks = 16
    /\ SnapshotMileage = 200
    /\ Target(2) = 266
    /\ Target(3) = 213
    /\ Target(4) = 293

\* the phase of 0-based week w of `weeks` by its fraction w / weeks, in
\* exact arithmetic
PhaseByFraction(w, weeks) ==
    IF 10 * w < 3 * weeks THEN "base_building"
    ELSE IF 10 * w < 7 * weeks THEN "strength_building"
    ELSE IF 10 * w < 9 * weeks THEN "peak_training"
    ELSE "taper"

PhaseRank(label) ==
    CASE label = "base_building" -> 0
      [] label = "strength_building" -> 1
      [] label = "peak_training" -> 2
      [] label = "taper" -> 3

\* the 0-based weeks of the returned progression that carry a label
WeeksLabelled(label) == {k \in Weeks : Returned[k + 1].focus = label}

\* C18: for every horizon and every 0-based week w of it, the label is
\* base_building when w / weeks < 0.3, strength_building when it is at
\* least 0.3 and below 0.7, peak_training when at least 0.7 and below 0.9,
\* and taper otherwise; along the weeks the labels never go backwards.
C18_PhaseByFraction ==
    /\ \A k \in Weeks : Returned[k + 1].focus = PhaseByFraction(k, Len(Returned))
    /\ \A k \in Weeks \ {0} :
           PhaseRank(Returned[k + 1].focus) >= PhaseRank(Returned[k].focus)

\* the progression for 16 weeks: weeks 0-4, 5-11, 12-14 and 15
C18_Witness ==
    /\ planner.pc = "returned"
    /\ planner.weeks = 16
    /\ WeeksLabelled("base_building") = 0..4
    /\ WeeksLabelled("strength_building") = 5..11
    /\ WeeksLabelled("peak_training") = 12..14
    /\ WeeksLabelled("taper") = {15}

\* C19: in every returned progression, for every snapshot (a weekly mileage
\* of 0 or a very small one included), each non-recovery week's target is
\* strictly greater than the target of the non-recovery week before it, and
\* the first week's target is greater than the snapshot's weekly mileage.
C19_StrictlyIncreasing ==
    /\ 0 \in Weeks => Target(0) > SnapshotMileage
    /\ \A k \in Weeks \ {0} :
           ~IsRecoveryWeek(k) => Target(k) > Target(PriorNonRecovery(k))

\* the progression for a weekly mileage of 0: every target is 0.0
C19_Witness ==
    /\ LongPlannerCall
    /\ SnapshotMileage = 0
    /\ \A k \in Weeks : Target(k) = 0

\* C20: for every horizon of at least 12 weeks the progression ends in a
\* taper: the last week is labelled taper, and every week labelled taper
\* has a target lower than the highest target of the peak_training weeks.
C20_TaperReducesVolume ==
    LongPlannerCall
        => /\ Returned[Len(Returned)].focus = "taper"
           /\ \A k \in WeeksLabelled("taper") :
                  \E p \in WeeksLabelled("peak_training") : Target(k) < Target(p)

\* the progression for 13 weeks from 20 km: its last week is its only taper
\* week and has the highest target of the plan
C20_Witness ==
    /\ LongPlannerCall
    /\ planner.weeks = 13
    /\ SnapshotMileage = 200
    /\ WeeksLabelled("taper") = {12}
    /\ \A k \in Weeks \ {12} : Target(12) > Target(k)
-----------------------------------------------------------------------------
(* The half-marathon pipeline of generate_full_plan.py: the calendar, the  *)
(* workout generator and the validator.  Descriptions, tips and the other  *)
(* prose fields of a workout are left out; paces are strings of            *)
(* characters, distances are doubles, durations are ints.                  *)

\* the date "dd/mm/2025" as a string
DMY(d1, d2, m1, m2) == <<d1, d2, "/", m1, m2, "/", "2", "0", "2", "5">>

\* AgentePlanoCompleto.gerar_datas_treino
GerarDatasTreino ==
    <<
       [data |-> DMY("1", "3", "0", "4"), dia |-> "Sábado", tipo |-> "Longo", distancia |-> FromTenths(140)],
       [data |-> DMY("1", "6", "0", "4"), dia |-> "Terça", tipo |-> "Intervalado"],
       [data |-> DMY("1", "8", "0", "4"), dia |-> "Quinta", tipo |-> "Fartlek"],
       [data |-> DMY("2", "0", "0", "4"), dia |-> "Sábado", tipo |-> "Longo", distancia |-> FromTenths(154)],
       [data |-> DMY("2", "3", "0", "4"), dia |-> "Terça", tipo |-> "Base"],
       [data |-> DMY("2", "5", "0", "4"), dia |-> "Quinta", tipo |-> "Ritmo"],
       [data |-> DMY("2", "7", "0", "4"), dia |-> "Sábado", tipo |-> "Longo", distancia |-> FromTenths(168)],
       [data |-> DMY("3", "0", "0", "4"), dia |-> "Terça", tipo |-> "Intervalado"],
       [data |-> DMY("0", "2", "0", "5"), dia |-> "Quinta", tipo |-> "Fartlek"],
       [data |-> DMY("0", "4", "0", "5"), dia |-> "Sábado", tipo |-> "Longo", distancia |-> FromTenths(180)],
       [data |-> DMY("0", "7", "0", "5"), dia |-> "Terça", tipo |-> "Base"],
       [data |-> DMY("0", "9", "0", "5"), dia |-> "Quinta", tipo |-> "Ritmo"],
       [data |-> DMY("1", "1", "0", "5"), dia |-> "Sábado", tipo |-> "Longo", distancia |-> FromTenths(190)],
       [data |-> DMY("1", "4", "0", "5"), dia |-> "Terça", tipo |-> "Intervalado"],
       [data |-> DMY("1", "6", "0", "5"), dia |-> "Quinta", tipo |-> "Fartlek"],
       [data |-> DMY("1", "8", "0", "5"), dia |-> "Sábado", tipo |-> "Longo", distancia |-> FromTenths(195)],
       [data |-> DMY("2", "1", "0", "5"), dia |-> "Terça", tipo |-> "Base"],
       [data |-> DMY("2", "3", "0", "5"), dia |-> "Quinta", tipo |-> "Ritmo"],
       [data |-> DMY("2", "5", "0", "5"), dia |-> "Sábado", tipo |-> "Longo", distancia |-> FromTenths(150)],
       [data |-> DMY("2", "8", "0", "5"), dia |-> "Terça", tipo |-> "Ritmo Leve"],
       [data |-> DMY("3", "0", "0", "5"), dia |-> "Quinta", tipo |-> "Trote Suave"],
       [data |-> DMY("0", "1", "0", "6"), dia |-> "Domingo", tipo |-> "MEIA MARATONA", distancia |-> FromTenths(211)]
    >>

\* the positions of a character in a string
Positions(cs, c) == {i \in 1..Len(cs) : cs[i] = c}

\* datetime.strptime(data, "%d/%m/%Y")
StrptimeDMYAt(cs, ss) ==
    IF Cardinality(ss) # 2 THEN [kind |-> "ValueError"]
    ELSE StrptimeFields(SubSeq(cs, Last(ss) + 1, Len(cs)),
                        SubSeq(cs, First(ss) + 1, Last(ss) - 1),
                        SubSeq(cs, 1, First(ss) - 1))

StrptimeDMY(cs) == StrptimeDMYAt(cs, Positions(cs, "/"))

\* str(n) for a natural n, and f"{n:02d}"
DigitChar(d) == CHOOSE c \in Digits : DigitVal(c) = d

RECURSIVE Decimal(_)
Decimal(n) ==
    IF n < 10 THEN <<DigitChar(n)>>
    ELSE Decimal(n \div 10) \o <<DigitChar(n % 10)>>

TwoDigits(n) == IF n < 10 THEN <<"0">> \o Decimal(n) ELSE Decimal(n)

\* f"{min_ritmo}:{seg_ritmo:02d}"
FormatRitmo(min_ritmo, seg_ritmo) ==
    Decimal(min_ritmo) \o <<":">> \o TwoDigits(seg_ritmo)

\* ajustes_ritmo, in tenths of a minute per km
AjustesRitmo ==
    ("Base" :> 0) @@ ("Longo" :> 5) @@ ("Intervalado" :> -10)
    @@ ("Ritmo" :> -5) @@ ("Fartlek" :> -3) @@ ("MEIA MARATONA" :> -5)

\* max(minimum, x)
AtLeast(minimum, x) == IF FloatLess(minimum, x) THEN x ELSE minimum

\* max(5.0, ritmo_base + ajuste), ajuste in tenths
RitmoAjustado(ritmo_base, ajuste) ==
    IF ajuste >= 0
    THEN AtLeast(FromTenths(50), FloatAdd(ritmo_base, FromTenths(ajuste)))
    ELSE IF FloatLess(ritmo_base, FromTenths(-ajuste)) THEN FromTenths(50)
    ELSE AtLeast(FromTenths(50), FloatAbsDiff(ritmo_base, FromTenths(-ajuste)))

\* gerar_treino without the adjustment of the type
RitmoTreinoSemAjuste(ritmo_base, tipo) == RitmoAjustado(ritmo_base, 0)

\* max(5.0, ritmo_base + ajustes_ritmo.get(tipo, 0))
RitmoTreino(ritmo_base, tipo) == RitmoAjustado(ritmo_base, Get(AjustesRitmo, tipo, 0))

\* the first day of the taper week, datetime(2025, 5, 26)
TaperStart == ToOrdinal(2025, 5, 26)

\* the dict gerar_treino builds, ritmo being ritmo_formatado and
\* ritmo_aquecimento the pace one minute slower
TreinoFormatado(tipo, data, distancia, is_taper, ritmo, ritmo_aquecimento) ==
    [tipo |-> tipo,
     data |-> data,
     aquecimento |->
         [duracao |-> IF tipo \in {"Longo", "MEIA MARATONA"} THEN 15 ELSE 10,
          ritmo |-> ritmo_aquecimento],
     parte_principal |->
         [distancia |-> IF distancia # None /\ BitLen(distancia.m) # 0
                        THEN distancia
                        ELSE IF is_taper THEN FromTenths(30)
                        ELSE FromTenths(50),
          duracao |-> IF is_taper THEN 20 ELSE 40,
          ritmo |-> ritmo,
          zonas_fc |-> IF tipo \in {"Base", "Longo"} THEN "Zona 2-3"
                       ELSE "Zona 3-4"],
     desaquecimento |->
         [duracao |-> IF tipo \in {"Longo", "MEIA MARATONA"} THEN 10 ELSE 5,
          ritmo |-> ritmo_aquecimento]]

\* gerar_treino from min_ritmo on
TreinoComMinutos(tipo, data, distancia, is_taper, min_ritmo, seg_ritmo) ==
    TreinoFormatado(tipo, data, distancia, is_taper,
                    FormatRitmo(min_ritmo, seg_ritmo),
                    FormatRitmo(min_ritmo + 1, seg_ritmo))

\* int((ritmo_treino - min_ritmo) * 60)
SegRitmo(ritmo_treino, min_ritmo) ==
    Trunc(FloatMul(FloatAbsDiff(ritmo_treino, FromInt(min_ritmo)), FromInt(60)))

TreinoComRitmo(tipo, data, distancia, is_taper, ritmo_treino, min_ritmo) ==
    TreinoComMinutos(tipo, data, distancia, is_taper, min_ritmo,
                     SegRitmo(ritmo_treino, min_ritmo))

\* gerar_treino from ritmo_treino on
TreinoDoRitmo(tipo, data, distancia, is_taper, ritmo_treino) ==
    TreinoComRitmo(tipo, data, distancia, is_taper, ritmo_treino,
                   Trunc(ritmo_treino))

\* gerar_treino, parsed being what strptime gave for data (None when data
\* is empty)
GerarTreinoEm(tipo, metricas, data, distancia, parsed) ==
    IF parsed # None /\ parsed.kind = "ValueError"
    THEN Raise("ValueError")
    ELSE IF tipo = "Descanso"
    THEN Return([tipo |-> "Descanso", data |-> data])
    ELSE Return(TreinoDoRitmo(tipo, data, distancia,
                              parsed # None /\ parsed.day >= TaperStart,
                              RitmoTreino(metricas.pace_medio, tipo)))

\* AgenteTreinos.gerar_treino(tipo, metricas, data, distancia): the workout
\* it returns, or the ValueError of strptime; distancia is a double or None
GerarTreino(tipo, metricas, data, distancia) ==
    GerarTreinoEm(tipo, metricas, data, distancia,
                  IF data = <<>> THEN None ELSE StrptimeDMY(data))

\* float(minutos) + float(segundos)/60, or 7.0 when a part is no number
RitmoDasPartes(minutos, segundos) ==
    IF /\ minutos # <<>> /\ AllDigits(minutos)
       /\ segundos # <<>> /\ AllDigits(segundos)
    THEN FloatAdd(FromInt(NumVal(minutos)),
                  FloatDiv(FromInt(NumVal(segundos)), FromInt(60)))
    ELSE FromTenths(70)

\* ritmo split at its colons cs
RitmoPartido(ritmo, cs) ==
    IF Cardinality(cs) # 1 THEN FromTenths(70)
    ELSE RitmoDasPartes(SubSeq(ritmo, 1, First(cs) - 1),
                        SubSeq(ritmo, First(cs) + 1, Len(ritmo)))

\* one pace "m:ss" as a double, or 7.0 when it does not parse
ConverterUmRitmo(ritmo) == RitmoPartido(ritmo, Positions(ritmo, ":"))

\* the parts of ritmo.split('-')
RECURSIVE SplitDash(_)
SplitDash(cs) ==
    IF Dashes(cs) = {} THEN <<cs>>
    ELSE <<SubSeq(cs, 1, First(Dashes(cs)) - 1)>>
         \o SplitDash(SubSeq(cs, First(Dashes(cs)) + 1, Len(cs)))

RECURSIVE SumRitmos(_)
SumRitmos(parts) ==
    IF parts = <<>> THEN FromInt(0)
    ELSE FloatAdd(SumRitmos(SubSeq(parts, 1, Len(parts) - 1)),
                  ConverterUmRitmo(parts[Len(parts)]))

\* sum(...) / len(ritmos)
MediaRitmos(ritmos) == FloatDiv(SumRitmos(ritmos), FromInt(Len(ritmos)))

\* AgenteValidador.converter_ritmo (paces of digits, ":" and "-")
ConverterRitmo(ritmo) ==
    IF Dashes(ritmo) # {} THEN MediaRitmos(SplitDash(ritmo))
    ELSE ConverterUmRitmo(ritmo)

\* AgenteValidador.criar_treino_padrao
CriarTreinoPadrao ==
    [tipo |-> "Base",
     aquecimento |-> [duracao |-> 10, ritmo |-> <<"8", ":", "0", "0">>],
     parte_principal |->
         [distancia |-> FromTenths(50),
          duracao |-> 30,
          ritmo |-> <<"7", ":", "0", "0">>,
          zonas_fc |-> "Zona 2"],
     desaquecimento |-> [duracao |-> 5, ritmo |-> <<"8", ":", "0", "0">>]]

\* validar_treino from distancia_calculada on, ritmo being what
\* converter_ritmo gave
ValidarDuracao(treino, ritmo) ==
    IF BitLen(ritmo.m) = 0
    THEN [raised |-> TRUE, treino |-> CriarTreinoPadrao]
    ELSE IF FloatLess(FromTenths(5),
                      FloatAbsDiff(FloatDiv(FromInt(treino.parte_principal.duracao),
                                            ritmo),
                                   treino.parte_principal.distancia))
    THEN [raised |-> FALSE,
          treino |-> [treino EXCEPT !.parte_principal.duracao =
                         Trunc(FloatMul(treino.parte_principal.distancia, ritmo))]]
    ELSE [raised |-> FALSE, treino |-> treino]

\* AgenteValidador.validar_treino: the workout it returns, and whether it
\* got there through the except branch (then the workout passed in is left
\* as it was)
ValidarTreino(treino) ==
    IF "tipo" \notin DOMAIN treino
    THEN [raised |-> TRUE, treino |-> CriarTreinoPadrao]
    ELSE IF treino.tipo = "Descanso" \/ "parte_principal" \notin DOMAIN treino
    THEN [raised |-> FALSE, treino |-> treino]
    ELSE IF ~({"ritmo", "duracao", "distancia"} \subseteq DOMAIN treino.parte_principal)
    THEN [raised |-> TRUE, treino |-> CriarTreinoPadrao]
    ELSE ValidarDuracao(treino, ConverterRitmo(treino.parte_principal.ritmo))

\* treino.get('dia_semana') == dia
DiaIs(treino, dia) == "dia_semana" \in DOMAIN treino /\ treino.dia_semana = dia

UltimoEntre(treinos_validados, longos) ==
    IF longos = {} THEN None ELSE treinos_validados[Last(longos)]

\* next((t for t in reversed(treinos_validados) if t['tipo'] == 'Longo'), None)
UltimoLongo(treinos_validados) ==
    UltimoEntre(treinos_validados,
                {j \in 1..Len(treinos_validados) :
                    treinos_validados[j].tipo = "Longo"})

\* validar_plano_completo: a Longo goes to Sábado
LongoNoSabado(treino) ==
    IF treino.tipo = "Longo" /\ ~DiaIs(treino, "Sábado")
    THEN Put(treino, "dia_semana", "Sábado") ELSE treino

\* validar_plano_completo: a workout on Domingo becomes a Descanso
DescansoNoDomingo(treino) ==
    IF DiaIs(treino, "Domingo") /\ treino.tipo # "Descanso"
    THEN [treino EXCEPT !.tipo = "Descanso"] ELSE treino

\* validar_plano_completo: a long run of more than 1.1 times the last one
\* is cut to 1.1 times it
LimitarAumento(treino, distancia, anterior) ==
    IF /\ FloatLess(anterior, distancia)
       /\ FloatLess(FloatMul(anterior, FromTenths(1)),
                    FloatAbsDiff(distancia, anterior))
    THEN [treino EXCEPT !.parte_principal.distancia =
             FloatMul(anterior, FromTenths(11))]
    ELSE treino

\* validar_plano_completo, the progression check of a workout against the
\* last long run validated: the workout after it, or the KeyError
ValidarProgressao(treino, ultimo_longo) ==
    IF treino.tipo # "Longo" \/ ultimo_longo = None THEN Return(treino)
    ELSE IF \/ "parte_principal" \notin DOMAIN treino
            \/ "distancia" \notin DOMAIN treino.parte_principal
            \/ "parte_principal" \notin DOMAIN ultimo_longo
            \/ "distancia" \notin DOMAIN ultimo_longo.parte_principal
    THEN Raise("KeyError")
    ELSE Return(LimitarAumento(treino, treino.parte_principal.distancia,
                               ultimo_longo.parte_principal.distancia))

\* The loop of validar_plano_completo.  Its state after some passes:
\* treinos is plano['treinos'] with the changes made in place so far,
\* treinos_validados the list built so far, raised whether an exception has
\* ended the loop.

\* the end of a pass: validado is what validar_treino gave for treino
ValidarSeguinte(loop, i, treino, validado) ==
    [treinos |-> [loop.treinos EXCEPT ![i] = IF validado.raised THEN treino
                                             ELSE validado.treino],
     treinos_validados |-> Append(loop.treinos_validados, validado.treino),
     raised |-> FALSE]

\* a pass after the progression check of treino gave progressao
ValidarVerificado(loop, i, treino, progressao) ==
    IF progressao.kind = "raise"
    THEN [loop EXCEPT !.treinos[i] = treino, !.raised = TRUE]
    ELSE ValidarSeguinte(loop, i, progressao.value,
                         ValidarTreino(progressao.value))

\* a pass after the weekday rules gave treino
ValidarUm(loop, i, treino) ==
    ValidarVerificado(loop, i, treino,
                      ValidarProgressao(treino,
                                        UltimoLongo(loop.treinos_validados)))

\* the pass for workout i
ValidarPasso(loop, i) ==
    IF "tipo" \notin DOMAIN loop.treinos[i]
    THEN [loop EXCEPT !.raised = TRUE]
    ELSE ValidarUm(loop, i, DescansoNoDomingo(LongoNoSabado(loop.treinos[i])))

\* the state of the loop before its first pass
ValidarInicio(treinos) ==
    [treinos |-> treinos, treinos_validados |-> <<>>, raised |-> FALSE]

\* plano['treinos'] as the loop leaves it: treinos_validados, or the list
\* as it stands when an exception ended the loop
TreinosDoLoop(loop) ==
    IF loop.raised THEN loop.treinos ELSE loop.treinos_validados

\* the average paces validar_dados can report (it keeps paces of 4.0 to
\* 12.0 min/km), in tenths, and the metricas that carry them
PaceInputs == {40 + k : k \in 0..MaxPaceSteps}

MetricasInputs == {[pace_medio |-> FromTenths(p)] : p \in PaceInputs}

\* gerar_plano: treino['data'] and treino['dia_semana'] are set on the
\* workout gerar_treino returned
TreinoDatado(data, outcome) ==
    IF outcome.kind = "raise" THEN outcome
    ELSE Return(Put(Put(outcome.value, "data", data.data),
                    "dia_semana", data.dia))

\* gerar_plano, the body of its loop for the calendar entry data: the
\* workout appended to the plan, or the exception
TreinoDoCalendario(metricas, data) ==
    TreinoDatado(data, GerarTreino(data.tipo, metricas, data.data,
                                   Get(data, "distancia", None)))

\* gerar_plano, after validar_dados returned metricas: the calendar is
\* generated and the plan is started
GerarDatas ==
    /\ pipeline.stage = "called"
    /\ pipeline' = [stage |-> "gerando",
                    metricas |-> pipeline.metricas,
                    proximo |-> 1,
                    plano |-> [metricas_base |-> pipeline.metricas,
                               treinos |-> <<>>]]
    /\ UNCHANGED <<training_plans, user_data, clock, lastCall, generated,
                   accepted, planner, threads>>

\* gerar_plano, one turn of its loop over the calendar: the workout of the
\* next entry is generated, dated and appended; an exception ends gerar_plano
GerarProximoTreino ==
    /\ pipeline.stage = "gerando"
    /\ LET outcome == TreinoDoCalendario(pipeline.metricas,
                                         GerarDatasTreino[pipeline.proximo])
           last == pipeline.proximo = Len(GerarDatasTreino)
       IN  pipeline' =
               IF outcome.kind = "raise" THEN [stage |-> "failed"]
               ELSE [pipeline EXCEPT
                        !.stage = IF last THEN "montado" ELSE "gerando",
                        !.proximo = pipeline.proximo + 1,
                        !.plano.treinos = Append(pipeline.plano.treinos,
                                                 outcome.value)]
    /\ UNCHANGED <<training_plans, user_data, clock, lastCall, generated,
                   accepted, planner, threads>>

\* gerar_plano calls validar_plano_completo on the assembled plan: the loop
\* over plano['treinos'] starts
ValidarPlano ==
    /\ pipeline.stage = "montado"
    /\ pipeline' =
           IF pipeline.plano.treinos = <<>>
           THEN [pipeline EXCEPT !.stage = "validado"]
           ELSE [stage |-> "validando",
                 metricas |-> pipeline.metricas,
                 proximo |-> 1,
                 plano |-> pipeline.plano,
                 loop |-> ValidarInicio(pipeline.plano.treinos)]
    /\ UNCHANGED <<training_plans, user_data, clock, lastCall, generated,
                   accepted, planner, threads>>

\* validar_plano_completo, one pass of its loop; after the last pass, or
\* when an exception ends the loop, the plan is returned to gerar_plano
ValidarProximoTreino ==
    /\ pipeline.stage = "validando"
    /\ LET loop == ValidarPasso(pipeline.loop, pipeline.proximo)
       IN  pipeline' =
               IF loop.raised \/ pipeline.proximo = Len(pipeline.loop.treinos)
               THEN [stage |-> "validado",
                     metricas |-> pipeline.metricas,
                     proximo |-> pipeline.proximo + 1,
                     plano |-> [pipeline.plano EXCEPT
                                   !.treinos = TreinosDoLoop(loop)]]
               ELSE [pipeline EXCEPT !.proximo = pipeline.proximo + 1,
                                     !.loop = loop]
    /\ UNCHANGED <<training_plans, user_data, clock, lastCall, generated,
                   accepted, planner, threads>>

InitPipeline ==
    /\ training_plans = EmptyDict
    /\ user_data = EmptyDict
    /\ clock = 0
    /\ lastCall = Idle
    /\ generated = EmptyDict
    /\ accepted = EmptyDict
    /\ planner = [pc |-> "idle"]
    /\ pipeline \in { [stage |-> "called", metricas |-> m] :
                      m \in MetricasInputs }
    /\ threads = [t \in {} |-> Idle]

NextPipeline ==
    GerarDatas \/ GerarProximoTreino \/ ValidarPlano \/ ValidarProximoTreino

SpecPipeline == InitPipeline /\ [][NextPipeline]_vars

-----------------------------------------------------------------------------
(* Properties of the half-marathon pipeline (SpecPipeline). *)

\* the workouts of the plan gerar_plano has assembled or validated
Treinos ==
    IF pipeline.stage \in {"montado", "validado"} THEN pipeline.plano.treinos
    ELSE <<>>

\* C10: in every assembled plan and in every plan the validator returns,
\* every workout on Domingo has type Descanso, and every workout of type
\* Longo or the terminal race (MEIA MARATONA) is on Sábado.
C10_RestOnDomingoLongOnSabado ==
    \A i \in 1..Len(Treinos) :
        /\ DiaIs(Treinos[i], "Domingo") => Treinos[i].tipo = "Descanso"
        /\ Treinos[i].tipo \in {"Longo", "MEIA MARATONA"}
               => DiaIs(Treinos[i], "Sábado")

\* the validated plan: the race of the calendar's last day has become a
\* Descanso that keeps its 21.1 km, and no workout of the plan is the race
C10_Witness ==
    /\ pipeline.stage = "validado"
    /\ Len(Treinos) = Len(GerarDatasTreino)
    /\ DiaIs(Treinos[Len(Treinos)], "Domingo")
    /\ Treinos[Len(Treinos)].tipo = "Descanso"
    /\ FloatEq(Treinos[Len(Treinos)].parte_principal.distancia, FromTenths(211))
    /\ \A i \in 1..Len(Treinos) : Treinos[i].tipo # "MEIA MARATONA"

\* the last workout of the plan, the one of the calendar's race day
UltimoTreino == Treinos[Len(Treinos)]

\* the distance of the race, 21.1
DistanciaDaProva == GerarDatasTreino[Len(GerarDatasTreino)].distancia

\* C11: the plan the pipeline returns (assembled, then validated) ends with
\* the goal workout at exactly 21.1 km: validation has not changed its
\* distance and has not turned it into a rest day.
C11_RaceSurvivesValidation ==
    pipeline.stage = "validado"
        => /\ UltimoTreino.tipo = "MEIA MARATONA"
           /\ "parte_principal" \in DOMAIN UltimoTreino
           /\ FloatEq(UltimoTreino.parte_principal.distancia, DistanciaDaProva)

\* a returned plan whose workout of the race day (01/06/2025) is a Descanso
C11_Witness ==
    /\ pipeline.stage = "validado"
    /\ UltimoTreino.data = GerarDatasTreino[Len(GerarDatasTreino)].data
    /\ UltimoTreino.tipo = "Descanso"

\* distancia is 0 or absent
SemDistancia(treino) ==
    \/ "parte_principal" \notin DOMAIN treino
    \/ "distancia" \notin DOMAIN treino.parte_principal
    \/ BitLen(treino.parte_principal.distancia.m) = 0

\* C12: every workout of type Descanso in an assembled or validated plan
\* carries no running distance, also the ones the validator has downgraded
\* to Descanso on Domingo.
C12_RestHasNoDistance ==
    \A i \in 1..Len(Treinos) :
        Treinos[i].tipo = "Descanso" => SemDistancia(Treinos[i])

\* a validated plan with a Descanso on Domingo that carries a distance
C12_Witness ==
    /\ pipeline.stage = "validado"
    /\ \E i \in 1..Len(Treinos) :
           /\ Treinos[i].tipo = "Descanso"
           /\ DiaIs(Treinos[i], "Domingo")
           /\ ~SemDistancia(Treinos[i])

\* the five workout types of the target-pace rule
TiposComAjuste == {"Base", "Longo", "Intervalado", "Ritmo", "Fartlek"}

\* the average pace of the metrics of the pipeline, in tenths of a minute
PaceTenths ==
    CHOOSE p \in PaceInputs : FromTenths(p) = pipeline.metricas.pace_medio

\* the workouts gerar_plano has generated so far, before validation
TreinosGerados ==
    IF pipeline.stage \in {"gerando", "montado"} THEN pipeline.plano.treinos
    ELSE <<>>

\* a pace "m:ss" in seconds per km
SegundosDoRitmo(ritmo) ==
    60 * NumVal(SubSeq(ritmo, 1, First(Positions(ritmo, ":")) - 1))
    + NumVal(SubSeq(ritmo, First(Positions(ritmo, ":")) + 1, Len(ritmo)))

\* the pace of the main part of workout i is the target of tenths tenths
\* of a minute, cut to whole seconds
RitmoIs(i, tenths) ==
    SegundosDoRitmo(TreinosGerados[i].parte_principal.ritmo)
        \in {6 * tenths - 1, 6 * tenths}

\* the larger of two integers
Max(a, b) == IF a >= b THEN a ELSE b

\* the target pace of every generated workout, with floor tenths of a minute
TargetPaceWithFloor(floor) ==
    \A i \in 1..Len(TreinosGerados) :
        TreinosGerados[i].tipo \in TiposComAjuste
            => /\ RitmoIs(i, Max(floor, PaceTenths
                                        + AjustesRitmo[TreinosGerados[i].tipo]))
               /\ SegundosDoRitmo(TreinosGerados[i].parte_principal.ritmo)
                      >= 6 * floor

\* C25 as stated: the target pace of a workout is the average pace of the
\* snapshot plus the offset of its type (Base 0, Longo +0.5, Intervalado
\* -1.0, Ritmo -0.5, Fartlek -0.3) whenever that sum is at least 3 min/km,
\* and it is never below 3 min/km.
C25_TargetPaceFloorThree == TargetPaceWithFloor(30)

\* C25: the target pace of a workout is the average pace of the snapshot
\* plus the offset of its type whenever that sum is at least 5 min/km, and
\* 5 min/km otherwise, so it is never below 5 min/km, for a snapshot pace
\* of 0 too; the workout carries it as m:ss, cut to whole seconds.
C25_TargetPaceFloorFive ==
    /\ TargetPaceWithFloor(50)
    /\ \A tipo \in TiposComAjuste :
           FloatEq(RitmoTreino(FromInt(0), tipo), FromTenths(50))

\* a plan has been generated for an average pace of 5.5 min/km: a Base
\* workout has the pace 5:30 and an Intervalado, whose sum is 4.5, 5:00
C25_Witness ==
    /\ pipeline.stage = "montado"
    /\ PaceTenths = 55
    /\ \E i \in 1..Len(TreinosGerados) :
           /\ TreinosGerados[i].tipo = "Base"
           /\ TreinosGerados[i].parte_principal.ritmo = <<"5", ":", "3", "0">>
    /\ \E i \in 1..Len(TreinosGerados) :
           /\ TreinosGerados[i].tipo = "Intervalado"
           /\ TreinosGerados[i].parte_principal.ritmo = <<"5", ":", "0", "0">>
-----------------------------------------------------------------------------
(* Metrics extraction: analyze_garmin_data. *)

\* the record sets have 0 .. MaxRuns equal records, then up to two others
MaxRuns == 8

\* A number of a run record, in halves (distances 0.5 km apart, durations
\* in whole seconds): the sums of such values are exact doubles, whatever
\* the order of the additions.
Num(h) == [kind |-> "num", halves |-> h]
List(s) == [kind |-> "list", val |-> s]

\* the double |h| / 2 of a count of halves below 2^26
HalvesToFloat(h) ==
    [m |-> Trim(<<(IF h < 0 THEN -h ELSE h) % 8192,
                  (IF h < 0 THEN -h ELSE h) \div 8192>>),
     e |-> -1]

\* a float result with its sign
Signed(neg, abs) == [neg |-> neg, abs |-> abs]
Zero == Signed(FALSE, [m |-> <<0>>, e |-> 0])
IsZero(x) == BitLen(x.abs.m) = 0
IsPositive(x) == ~x.neg /\ ~IsZero(x)

\* bool(runs): None and the empty list are false
HasRuns(runs) == runs.kind = "list" /\ Len(runs.val) > 0

\* sum(run.get(key, 0) for run in runs), in halves
RECURSIVE SumFrom(_, _, _)
SumFrom(rs, key, i) ==
    IF i > Len(rs) THEN 0
    ELSE Get(rs[i], key, Num(0)).halves + SumFrom(rs, key, i + 1)

\* the sum adds a None to a number
SumFails(rs, key) ==
    \E i \in 1..Len(rs) : Get(rs[i], key, Num(0)).kind = "none"

SumOf(rs, key) ==
    IF SumFails(rs, key) THEN Raise("TypeError")
    ELSE Return(SumFrom(rs, key, 1))

\* total_time / total_distance
PaceOf(total_time, total_distance) ==
    IF total_distance = 0 THEN Zero
    ELSE Signed((total_time < 0) # (total_distance < 0),
                FloatDiv(HalvesToFloat(total_time),
                         HalvesToFloat(total_distance)))

PaceOfSums(total_time, total_distance) ==
    IF total_time.kind = "raise" THEN total_time
    ELSE IF total_distance.kind = "raise" THEN total_distance
    ELSE Return(PaceOf(total_time.value, total_distance.value))

\* _calculate_average_pace
CalculateAveragePace(runs) ==
    IF ~HasRuns(runs) THEN Return(Zero)
    ELSE PaceOfSums(SumOf(runs.val, "duration"), SumOf(runs.val, "distance"))

\* weeks = len(runs) / 7 if len(runs) >= 7 else 1
WeeksOf(n) == IF n >= 7 THEN FloatDiv(FromInt(n), FromInt(7)) ELSE FromInt(1)

MileageOfSum(total_distance, n) ==
    IF total_distance.kind = "raise" THEN total_distance
    ELSE Return(Signed(total_distance.value < 0,
                       FloatDiv(HalvesToFloat(total_distance.value),
                                WeeksOf(n))))

\* _calculate_weekly_mileage
CalculateWeeklyMileage(runs) ==
    IF ~HasRuns(runs) THEN Return(Zero)
    ELSE MileageOfSum(SumOf(runs.val, "distance"), Len(runs.val))

\* x < n for an int n
Below(x, n) == (x.neg /\ ~IsZero(x)) \/ (~x.neg /\ FloatLess(x.abs, FromInt(n)))

\* the tiers with the thresholds themselves in the lower tier
FitnessOfMileageInclusive(weekly_mileage) ==
    IF weekly_mileage.kind = "raise" THEN weekly_mileage
    ELSE IF ~Below(weekly_mileage.value, 10)
               => FloatEq(weekly_mileage.value.abs, FromInt(10))
         THEN Return("beginner")
    ELSE IF ~Below(weekly_mileage.value, 25)
               => FloatEq(weekly_mileage.value.abs, FromInt(25))
         THEN Return("intermediate")
    ELSE Return("advanced")

FitnessOfMileage(weekly_mileage) ==
    IF weekly_mileage.kind = "raise" THEN weekly_mileage
    ELSE IF Below(weekly_mileage.value, 10) THEN Return("beginner")
    ELSE IF Below(weekly_mileage.value, 25) THEN Return("intermediate")
    ELSE Return("advanced")

\* _assess_fitness_level
AssessFitnessLevel(runs) == FitnessOfMileage(CalculateWeeklyMileage(runs))

\* len(runs[-7:] if len(runs) >= 7 else runs)
RecentRuns(n) == IF n >= 7 THEN 7 ELSE n

\* _assess_injury_risk
AssessInjuryRisk(runs) ==
    IF ~HasRuns(runs) THEN Return("low")
    ELSE IF RecentRuns(Len(runs.val)) > 5 THEN Return("high")
    ELSE IF RecentRuns(Len(runs.val)) < 2 THEN Return("low")
    ELSE Return("medium")

\* the metrics dict, its values computed in the order of the dict display
MetricsOf(avg_pace, weekly_mileage, fitness_level, injury_risk) ==
    IF avg_pace.kind = "raise" THEN avg_pace
    ELSE IF weekly_mileage.kind = "raise" THEN weekly_mileage
    ELSE IF fitness_level.kind = "raise" THEN fitness_level
    ELSE IF injury_risk.kind = "raise" THEN injury_risk
    ELSE Return([avg_pace |-> avg_pace.value,
                 weekly_mileage |-> weekly_mileage.value,
                 fitness_level |-> fitness_level.value,
                 injury_risk |-> injury_risk.value])

MetricsOfRuns(runs) ==
    MetricsOf(CalculateAveragePace(runs), CalculateWeeklyMileage(runs),
              AssessFitnessLevel(runs), AssessInjuryRisk(runs))

\* the same with garmin_data['runs'] for garmin_data.get('runs', [])
AnalyzeOutcomeRequiringRuns(garmin_data) ==
    IF garmin_data.kind # "dict"
    THEN Raise("Garmin data must be a dictionary")
    ELSE IF "runs" \notin DOMAIN garmin_data.val THEN Raise("KeyError")
    ELSE MetricsOfRuns(garmin_data.val.runs)

\* analyze_garmin_data
AnalyzeOutcome(garmin_data) ==
    IF garmin_data.kind # "dict"
    THEN Raise("Garmin data must be a dictionary")
    ELSE MetricsOfRuns(Get(garmin_data.val, "runs", List(<<>>)))

\* The run records: 5 km in 30 minutes, 15 km in 90 minutes, a record
\* without fields, zeros, a missing duration, a zero duration, negative
\* distances and a None.
ValidRun == [distance |-> Num(10), duration |-> Num(3600)]

RunInputs ==
    { ValidRun,
      [distance |-> Num(30), duration |-> Num(10800)],
      EmptyDict,
      [distance |-> Num(0), duration |-> Num(0)],
      [distance |-> Num(9)],
      [distance |-> Num(1), duration |-> Num(0)],
      [distance |-> Num(-10), duration |-> Num(0)],
      [distance |-> Num(-30), duration |-> Num(3600)],
      [distance |-> None, duration |-> Num(3600)] }

RunTails ==
    {<<>>} \cup {<<r>> : r \in RunInputs}
           \cup {<<r, s>> : r \in RunInputs, s \in RunInputs}

RunLists ==
    {[i \in 1..n |-> r] \o tail :
        n \in 0..MaxRuns, r \in {ValidRun, EmptyDict}, tail \in RunTails}

\* the dates of dated runs: the Monday and the Sunday of one ISO week and
\* the Monday of the next
RunDates ==
    { <<"2", "0", "2", "4", "-", "0", "1", "-", "0", "1">>,
      <<"2", "0", "2", "4", "-", "0", "1", "-", "0", "7">>,
      <<"2", "0", "2", "4", "-", "0", "1", "-", "0", "8">> }

\* a run of 5 km in 30 minutes on a date
DatedRun(date) ==
    [distance |-> Num(10), duration |-> Num(3600), date |-> Str(date)]

\* three runs, or seven and more: the first k on one date, the others on
\* another
DatedRunLists ==
    {[i \in 1..n |-> DatedRun(IF i <= k THEN a ELSE b)] :
        n \in {3} \cup 7..MaxRuns, k \in 0..MaxRuns, a \in RunDates, b \in RunDates}

\* the runs of test_calculate_weekly_mileage: 5, 3 and 8 km
TestRuns == <<[distance |-> Num(10)], [distance |-> Num(6)], [distance |-> Num(16)]>>

GarminInputs ==
    {None, Str("invalid_data"), Dict(EmptyDict), Dict([runs |-> None])}
        \cup {Dict([runs |-> List(rs)]) :
                  rs \in RunLists \cup DatedRunLists \cup {TestRuns}}

\* The outcomes of the calls, evaluated once:
\* AnalyzeTable[g] = AnalyzeOutcome(g)
AnalyzeTable == [g \in GarminInputs |-> AnalyzeOutcome(g)]

AnalyzeGarminData(garmin_data) ==
    /\ lastCall' = [op |-> "analyze_garmin_data", garmin_data |-> garmin_data,
                    outcome |-> AnalyzeTable[garmin_data]]
    /\ UNCHANGED <<training_plans, user_data, clock, generated, accepted,
                   planner, pipeline, threads>>

InitMetrics == Init

NextMetrics == \E garmin_data \in GarminInputs : AnalyzeGarminData(garmin_data)

SpecMetrics == InitMetrics /\ [][NextMetrics]_vars

-----------------------------------------------------------------------------
(* Properties of the metrics extraction, checked under SpecMetrics. *)

Analyzed == lastCall.op = "analyze_garmin_data"

\* the runs of the last call: the list under 'runs', or none
AnalyzedRuns ==
    IF Analyzed /\ lastCall.garmin_data.kind = "dict"
                /\ "runs" \in DOMAIN lastCall.garmin_data.val
                /\ lastCall.garmin_data.val.runs.kind = "list"
    THEN lastCall.garmin_data.val.runs.val
    ELSE <<>>

\* the record set of the last call is empty: 'runs' absent or without runs
EmptyRecordSet ==
    /\ Analyzed
    /\ lastCall.garmin_data.kind = "dict"
    /\ AnalyzedRuns = <<>>

\* C13: for an empty record set (no runs, or no 'runs' key) the extraction
\* returns pace 0, weekly mileage 0, tier beginner and risk low, and does
\* not raise.
C13_EmptyRecordSet ==
    EmptyRecordSet
        => /\ lastCall.outcome.kind = "return"
           /\ IsZero(lastCall.outcome.value.avg_pace)
           /\ IsZero(lastCall.outcome.value.weekly_mileage)
           /\ lastCall.outcome.value.fitness_level = "beginner"
           /\ lastCall.outcome.value.injury_risk = "low"

\* the extraction has returned for a dict that has 'runs': []
C13_Witness ==
    /\ EmptyRecordSet
    /\ "runs" \in DOMAIN lastCall.garmin_data.val
    /\ lastCall.garmin_data.val.runs.kind = "list"
    /\ lastCall.outcome.kind = "return"

\* a record with distance > 0 and duration > 0
IsValidRun(run) ==
    /\ {"distance", "duration"} \subseteq DOMAIN run
    /\ run.distance.kind = "num" /\ run.distance.halves > 0
    /\ run.duration.kind = "num" /\ run.duration.halves > 0

\* no record holds a value the sums cannot add
Tolerated(rs) ==
    \A i \in 1..Len(rs) :
        \A k \in DOMAIN rs[i] \cap {"distance", "duration"} : rs[i][k].kind = "num"

\* C14: for a record set with at least one valid record (distance > 0 and
\* duration > 0), whatever the other records hold, the average pace is
\* strictly positive (and finite).
C14_PacePositive ==
    (\E i \in 1..Len(AnalyzedRuns) : IsValidRun(AnalyzedRuns[i]))
        => /\ lastCall.outcome.kind = "return"
           /\ IsPositive(lastCall.outcome.value.avg_pace)

\* the extraction has returned a pace that is not positive for two records
\* of numbers, the first one valid
C14_Witness ==
    /\ Len(AnalyzedRuns) = 2
    /\ IsValidRun(AnalyzedRuns[1])
    /\ Tolerated(AnalyzedRuns)
    /\ lastCall.outcome.kind = "return"
    /\ ~IsPositive(lastCall.outcome.value.avg_pace)

\* the sum of field key over the valid records of rs, in halves
RECURSIVE ValidSumFrom(_, _, _)
ValidSumFrom(rs, key, i) ==
    IF i > Len(rs) THEN 0
    ELSE (IF IsValidRun(rs[i]) THEN rs[i][key].halves ELSE 0)
         + ValidSumFrom(rs, key, i + 1)

\* (sum of durations) / (sum of distances) over the valid records, 0 when
\* there are none
FilteredPace(rs) ==
    IF ValidSumFrom(rs, "distance", 1) = 0 THEN Zero
    ELSE Signed(FALSE, FloatDiv(HalvesToFloat(ValidSumFrom(rs, "duration", 1)),
                                HalvesToFloat(ValidSumFrom(rs, "distance", 1))))

SameNumber(x, y) ==
    (IsZero(x) /\ IsZero(y)) \/ (x.neg = y.neg /\ FloatEq(x.abs, y.abs))

\* C26: the average pace is computed from the records with distance > 0
\* and duration > 0 only: it is their total duration over their total
\* distance, and 0 when there are none; a record with a zero, missing or
\* invalid distance or duration adds to neither sum.
C26_PaceOfValidRecords ==
    (Analyzed /\ lastCall.garmin_data.kind = "dict" /\ Tolerated(AnalyzedRuns))
        => /\ lastCall.outcome.kind = "return"
           /\ SameNumber(lastCall.outcome.value.avg_pace, FilteredPace(AnalyzedRuns))

\* the extraction has returned, for a valid record and a record with a
\* distance and no duration, a pace other than that of the valid record
C26_Witness ==
    /\ Len(AnalyzedRuns) = 2
    /\ IsValidRun(AnalyzedRuns[1])
    /\ DOMAIN AnalyzedRuns[2] = {"distance"}
    /\ lastCall.outcome.kind = "return"
    /\ ~SameNumber(lastCall.outcome.value.avg_pace, FilteredPace(AnalyzedRuns))

\* the ISO calendar week of a dated run: the weeks run from Monday, and day
\* 1 of the calendar is a Monday
IsoWeek(run) == (Strptime(run.date.val).day - 1) \div 7

AllDated(rs) == \A i \in 1..Len(rs) : "date" \in DOMAIN rs[i]

IsoWeeks(rs) == {IsoWeek(rs[i]) : i \in 1..Len(rs)}

\* the mean of the per-week sums of the distances: their total over the
\* number of weeks; one week when there are fewer than 7 records
MeanOfWeeks(rs) ==
    Signed(SumFrom(rs, "distance", 1) < 0,
           FloatDiv(HalvesToFloat(SumFrom(rs, "distance", 1)),
                    FromInt(IF Len(rs) < 7 THEN 1 ELSE Cardinality(IsoWeeks(rs)))))

\* C27: the weekly mileage is the mean of the sums of the distances of each
\* ISO calendar week, and with fewer than 7 records the sum of all
\* distances (5, 3 and 8 give 16); every record adds its distance.
C27_MeanOfIsoWeeks ==
    (/\ Analyzed
     /\ lastCall.outcome.kind = "return"
     /\ AnalyzedRuns # <<>>
     /\ Len(AnalyzedRuns) < 7 \/ AllDated(AnalyzedRuns))
        => SameNumber(lastCall.outcome.value.weekly_mileage,
                      MeanOfWeeks(AnalyzedRuns))

\* the extraction has returned 35 km a week for eight runs of 5 km, four in
\* each of two ISO weeks
C27_Witness ==
    /\ Len(AnalyzedRuns) = 8
    /\ AllDated(AnalyzedRuns)
    /\ Cardinality(IsoWeeks(AnalyzedRuns)) = 2
    /\ Cardinality({i \in 1..8 : IsoWeek(AnalyzedRuns[i]) = IsoWeek(AnalyzedRuns[1])}) = 4
    /\ lastCall.outcome.kind = "return"
    /\ FloatEq(lastCall.outcome.value.weekly_mileage.abs, FromInt(35))

\* the tier of a weekly mileage
TierOf(x) ==
    IF Below(x, 10) THEN "beginner"
    ELSE IF Below(x, 25) THEN "intermediate"
    ELSE "advanced"

\* C15: the fitness tier is the tier of the weekly mileage that the metrics
\* report: beginner below 10, intermediate from 10 (included) and below 25,
\* advanced from 25 (included).
C15_TierOfReportedMileage ==
    (Analyzed /\ lastCall.outcome.kind = "return")
        => /\ lastCall.outcome.value.fitness_level
                  = TierOf(lastCall.outcome.value.weekly_mileage)
           /\ FloatEq(lastCall.outcome.value.weekly_mileage.abs, FromInt(10))
                  /\ ~lastCall.outcome.value.weekly_mileage.neg
                  => lastCall.outcome.value.fitness_level = "intermediate"
           /\ FloatEq(lastCall.outcome.value.weekly_mileage.abs, FromInt(25))
                  /\ ~lastCall.outcome.value.weekly_mileage.neg
                  => lastCall.outcome.value.fitness_level = "advanced"

\* the extraction has reported a weekly mileage of exactly 25 as advanced
C15_Witness ==
    /\ Analyzed
    /\ lastCall.outcome.kind = "return"
    /\ FloatEq(lastCall.outcome.value.weekly_mileage.abs, FromInt(25))
    /\ ~lastCall.outcome.value.weekly_mileage.neg
    /\ lastCall.outcome.value.fitness_level = "advanced"
-----------------------------------------------------------------------------
(* generate_training_plan called in parallel on one agent: each call runs *)
(* its statements in order, the statements of different calls interleave, *)
(* and time passes between them.  The locals of a call are its own; the   *)
(* calls share self.training_plans and the clock.                         *)

Threads == {"t1", "t2"}

\* the locals of a call that has not started
NotCalled ==
    [pc |-> "idle", user_id |-> None, target_date |-> <<>>,
     current_fitness |-> None, started |-> 0, now |-> 0,
     target_day |-> 0, weeks_to_marathon |-> 0, outcome |-> Idle]

\* the ids of the calls that run beside thread t
OtherIds(t) == {threads[s].user_id : s \in {x \in Threads \ {t} : threads[x].pc # "idle"}}

\* the calls the threads make: a user, the empty id, the dates, two snapshots
ThreadUserIds == {Str("u1"), Str("u2"), Str("")}
ThreadFitness == {Dict([fitness_level |-> "intermediate", weekly_mileage |-> 200]),
                  Str("invalid_data")}

\* a call ends: it raises or returns
Finished(locals, outcome) == [locals EXCEPT !.pc = "done", !.outcome = outcome]

\* a thread calls generate_training_plan with a user id no running call has
CallGenerate(t, user_id, target_date, current_fitness) ==
    /\ threads[t].pc = "idle"
    /\ user_id \notin OtherIds(t)
    /\ threads' = [threads EXCEPT ![t] =
           [NotCalled EXCEPT !.pc = "user_id", !.user_id = user_id,
                             !.target_date = target_date,
                             !.current_fitness = current_fitness,
                             !.started = clock]]
    /\ UNCHANGED <<training_plans, user_data, clock, lastCall, generated,
                   accepted, planner, pipeline>>

\* if not user_id: raise
CheckedUserId(locals) ==
    IF ~Truthy(locals.user_id)
    THEN Finished(locals, Raise("User ID cannot be empty"))
    ELSE [locals EXCEPT !.pc = "strptime"]

CheckUserId(t) ==
    /\ threads[t].pc = "user_id"
    /\ threads' = [threads EXCEPT ![t] = CheckedUserId(threads[t])]
    /\ UNCHANGED <<training_plans, user_data, clock, lastCall, generated,
                   accepted, planner, pipeline>>

\* target_datetime = datetime.strptime(target_date, '%Y-%m-%d')
ParsedDate(locals, target_datetime) ==
    IF target_datetime.kind = "ValueError"
    THEN Finished(locals, Raise("Target date must be in YYYY-MM-DD format"))
    ELSE [locals EXCEPT !.pc = "now", !.target_day = target_datetime.day]

ParseDate(t) ==
    /\ threads[t].pc = "strptime"
    /\ threads' = [threads EXCEPT ![t] =
           ParsedDate(threads[t], ParseTargetDate(threads[t].target_date))]
    /\ UNCHANGED <<training_plans, user_data, clock, lastCall, generated,
                   accepted, planner, pipeline>>

\* weeks_to_marathon = (target_datetime - datetime.now()).days // 7
ReadNow(t) ==
    /\ threads[t].pc = "now"
    /\ threads' = [threads EXCEPT ![t] =
           [threads[t] EXCEPT !.pc = "plan", !.now = clock,
                !.weeks_to_marathon = WeeksToMarathon(threads[t].target_day, clock)]]
    /\ UNCHANGED <<training_plans, user_data, clock, lastCall, generated,
                   accepted, planner, pipeline>>

\* the test of weeks_to_marathon and plan = {...}
BuiltPlan(locals, outcome) ==
    IF outcome.kind = "raise" THEN Finished(locals, outcome)
    ELSE [locals EXCEPT !.pc = "store", !.outcome = outcome]

BuildPlan(t) ==
    /\ threads[t].pc = "plan"
    /\ threads' = [threads EXCEPT ![t] =
           BuiltPlan(threads[t],
                     GeneratePlan(threads[t].user_id, threads[t].target_date,
                                  threads[t].current_fitness,
                                  threads[t].weeks_to_marathon))]
    /\ UNCHANGED <<training_plans, user_data, clock, lastCall, generated,
                   accepted, planner, pipeline>>

\* self.training_plans[user_id] = plan: one insertion into the shared dict
StoreThreadPlan(t) ==
    /\ threads[t].pc = "store"
    /\ training_plans' = StorePlan(training_plans, threads[t].user_id,
                                   threads[t].outcome.value)
    /\ threads' = [threads EXCEPT ![t] = [threads[t] EXCEPT !.pc = "return"]]
    /\ UNCHANGED <<user_data, clock, lastCall, generated, accepted, planner,
                   pipeline>>

\* return plan
ReturnPlan(t) ==
    /\ threads[t].pc = "return"
    /\ threads' = [threads EXCEPT ![t] = [threads[t] EXCEPT !.pc = "done"]]
    /\ UNCHANGED <<training_plans, user_data, clock, lastCall, generated,
                   accepted, planner, pipeline>>

InitThreads ==
    /\ training_plans = EmptyDict
    /\ user_data = EmptyDict
    /\ clock = 0
    /\ lastCall = Idle
    /\ generated = EmptyDict
    /\ accepted = EmptyDict
    /\ planner = [pc |-> "idle"]
    /\ pipeline = [stage |-> "idle"]
    /\ threads = [t \in Threads |-> NotCalled]

NextThreads ==
    \/ \E t \in Threads, user_id \in ThreadUserIds, target_date \in TargetDates,
          current_fitness \in ThreadFitness :
           CallGenerate(t, user_id, target_date, current_fitness)
    \/ \E t \in Threads : CheckUserId(t)
    \/ \E t \in Threads : ParseDate(t)
    \/ \E t \in Threads : ReadNow(t)
    \/ \E t \in Threads : BuildPlan(t)
    \/ \E t \in Threads : StoreThreadPlan(t)
    \/ \E t \in Threads : ReturnPlan(t)
    \/ Tick

SpecThreads == InitThreads /\ [][NextThreads]_vars

-----------------------------------------------------------------------------
(* Properties of the parallel calls, checked under SpecThreads. *)

AllDone == \A t \in Threads : threads[t].pc = "done"

\* the call of thread t has the outcome of a call run alone at some time
\* between its start and its end
AsIfAlone(t) ==
    \E c \in threads[t].started..clock :
        threads[t].outcome
            = GenerateOutcome(threads[t].user_id, threads[t].target_date,
                              threads[t].current_fitness, c)

\* the users whose calls have returned a plan
ReturnedIds ==
    {threads[t].user_id : t \in {x \in Threads : threads[x].outcome.kind = "return"}}

\* C16: when calls of generate_training_plan for distinct user ids have run
\* in parallel on one agent, in any interleaving, each has the outcome of a
\* call run alone, and once all have finished the store maps each user id
\* to the plan its own call returned, and holds nothing else.
C16_ParallelCallsAsIfAlone ==
    AllDone
        => /\ \A t \in Threads : AsIfAlone(t)
           /\ DOMAIN training_plans = ReturnedIds
           /\ \A t \in Threads :
                  threads[t].outcome.kind = "return"
                      => training_plans[threads[t].user_id]
                             = threads[t].outcome.value

\* two calls have returned plans that both are in the store; t1 was called
\* first and read the clock last: t2 read it half a day earlier
C16_Witness ==
    /\ AllDone
    /\ \A t \in Threads : threads[t].outcome.kind = "return"
    /\ threads["t1"].started = 0
    /\ threads["t2"].now = 0
    /\ threads["t1"].now = 1
    /\ DOMAIN training_plans = {Str("u1"), Str("u2")}
-----------------------------------------------------------------------------
(* TrainingAgent with all four public operations: the calls of Spec and   *)
(* analyze_garmin_data between them.                                      *)

\* the garmin_data of these calls: not a dictionary, no runs, one run
AgentGarminInputs ==
    {None, Dict(EmptyDict), Dict([runs |-> List(<<ValidRun>>)])}

NextAgent ==
    \/ \E call \in GenerateInputs :
           GenerateTrainingPlan(call[1], call[2], call[3])
    \/ \E u \in UserIds : CallGetTrainingPlan(u)
    \/ \E call \in UpdateInputs : UpdateProgress(call[1], call[2])
    \/ \E garmin_data \in AgentGarminInputs : AnalyzeGarminData(garmin_data)
    \/ Tick

SpecAgent == Init /\ [][NextAgent]_vars

-----------------------------------------------------------------------------
(* Properties of the TrainingAgent's stores, checked under SpecAgent. *)

\* C28: in every reachable state, every user id with progress records has
\* a stored plan (the keys of user_data are among the keys of
\* training_plans), and every stored plan's user_id is the key it is
\* stored under.
C28_ProgressOnlyWithPlan ==
    /\ DOMAIN user_data \subseteq DOMAIN training_plans
    /\ \A u \in DOMAIN training_plans : training_plans[u].user_id = u

\* both users have a plan, only one of them has progress records, as many
\* as the model stores, and the last call was analyze_garmin_data
C28_Witness ==
    /\ DOMAIN training_plans = {Str("u1"), Str("u2")}
    /\ DOMAIN user_data = {Str("u1")}
    /\ Len(user_data[Str("u1")]) = MaxProgress
    /\ lastCall.op = "analyze_garmin_data"

\* the entries of a store other than that of user_id are as they were
OthersUnchanged(before, after, user_id) ==
    /\ DOMAIN after \subseteq DOMAIN before \cup {user_id}
    /\ \A v \in DOMAIN before \ {user_id} :
           v \in DOMAIN after /\ after[v] = before[v]

\* C29: a successful generate_training_plan(u, ...) changes only the plan
\* stored for u, and no progress record of any user; update_progress(u, ...)
\* changes only u's progress list; analyze_garmin_data changes nothing.
C29_CallsChangeOnlyTheirUser ==
    [][/\ (lastCall'.op = "generate_training_plan"
              /\ lastCall'.outcome.kind = "return")
           => /\ OthersUnchanged(training_plans, training_plans', lastCall'.user_id)
              /\ training_plans'[lastCall'.user_id] = lastCall'.outcome.value
              /\ UNCHANGED user_data
       /\ lastCall'.op = "update_progress"
           => /\ OthersUnchanged(user_data, user_data', lastCall'.user_id)
              /\ UNCHANGED training_plans
       /\ lastCall'.op = "analyze_garmin_data"
           => UNCHANGED <<training_plans, user_data>>]_vars

\* a second plan has just been generated for a user who has progress
\* records from the first, half a day later, while the other user has a
\* plan and a record too
C29_Witness ==
    /\ lastCall.op = "generate_training_plan"
    /\ lastCall.outcome.kind = "return"
    /\ lastCall.user_id = Str("u1")
    /\ clock = 1
    /\ DOMAIN user_data = {Str("u1"), Str("u2")}
    /\ DOMAIN training_plans = {Str("u1"), Str("u2")}
    /\ generated[Str("u1")] = lastCall.outcome.value
-----------------------------------------------------------------------------
(* The validator on draft plans: validar_plano_completo called on its own,
   and called again on the plan it returned. *)

\* the drafts have 1 .. MaxDraft workouts
MaxDraft == 3

\* a workout of a draft with the fields the validator reads
Corrida(tipo, dia, tenths, duracao, ritmo) ==
    [tipo |-> tipo,
     dia_semana |-> dia,
     parte_principal |-> [distancia |-> FromTenths(tenths),
                          duracao |-> duracao,
                          ritmo |-> ritmo]]

\* the workouts of the drafts: a Base on Sábado whose 40 minutes at 5:00
\* do not give its 5 km, a Longo of 14 km on Terça, a Longo of 16.8 km on
\* Sábado (20% more), a Longo of 15.4 km on Sábado (10% more) and an
\* Intervalado on Domingo
DraftWorkouts ==
    { Corrida("Base", "Sábado", 50, 40, <<"5", ":", "0", "0">>),
      Corrida("Longo", "Terça", 140, 84, <<"6", ":", "0", "0">>),
      Corrida("Longo", "Sábado", 168, 100, <<"6", ":", "0", "0">>),
      Corrida("Longo", "Sábado", 154, 92, <<"6", ":", "0", "0">>),
      Corrida("Intervalado", "Domingo", 50, 25, <<"5", ":", "0", "0">>) }

\* the fields a workout must have: its type, its main part and the
\* distance, duration and pace of the main part
RequiredFields == {"tipo", "parte_principal", "distancia", "duracao", "ritmo"}

\* treino without the field campo
Without(treino, campo) ==
    IF campo \in {"tipo", "parte_principal"}
    THEN [k \in DOMAIN treino \ {campo} |-> treino[k]]
    ELSE [treino EXCEPT !.parte_principal =
             [k \in DOMAIN treino.parte_principal \ {campo} |->
                 treino.parte_principal[k]]]

WellFormedDrafts == UNION {[1..n -> DraftWorkouts] : n \in 1..MaxDraft}

\* the drafts: the well-formed ones, and those with one workout that lacks
\* one required field
DraftPlans ==
    WellFormedDrafts
        \cup {[d EXCEPT ![IF k <= Len(d) THEN k ELSE 1] =
                  Without(d[IF k <= Len(d) THEN k ELSE 1], campo)] :
                 d \in WellFormedDrafts, k \in 1..MaxDraft, campo \in RequiredFields}

\* validar_plano_completo, its loop from pass i on
RECURSIVE ValidarDesde(_, _)
ValidarDesde(loop, i) ==
    IF loop.raised \/ i > Len(loop.treinos) THEN loop
    ELSE ValidarDesde(ValidarPasso(loop, i), i + 1)

\* AgenteValidador.validar_plano_completo: plano['treinos'] of the plan it
\* returns for a plan with the workouts treinos
ValidarPlanoCompleto(treinos) ==
    TreinosDoLoop(ValidarDesde(ValidarInicio(treinos), 1))

\* the number of calls of validar_plano_completo so far
Vez == IF lastCall.op = "none" THEN 0 ELSE lastCall.vez

\* validar_plano_completo is called on the plan at hand: the draft, or the
\* plan the first call returned
CallValidarPlanoCompleto ==
    /\ pipeline.stage \in {"montado", "validado"}
    /\ Vez < 2
    /\ pipeline' = [stage |-> "validado",
                    plano |-> [treinos |->
                                  ValidarPlanoCompleto(pipeline.plano.treinos)]]
    /\ lastCall' = [op |-> "validar_plano_completo",
                    treinos |-> pipeline.plano.treinos,
                    outcome |-> pipeline'.plano.treinos,
                    vez |-> Vez + 1]
    /\ UNCHANGED <<training_plans, user_data, clock, generated, accepted,
                   planner, threads>>

InitValidator ==
    /\ training_plans = EmptyDict
    /\ user_data = EmptyDict
    /\ clock = 0
    /\ lastCall = Idle
    /\ generated = EmptyDict
    /\ accepted = EmptyDict
    /\ planner = [pc |-> "idle"]
    /\ pipeline \in { [stage |-> "montado", plano |-> [treinos |-> d]] :
                      d \in DraftPlans }
    /\ threads = [t \in {} |-> Idle]

NextValidator == CallValidarPlanoCompleto

SpecValidator == InitValidator /\ [][NextValidator]_vars

-----------------------------------------------------------------------------
(* Properties of the validator (SpecValidator). *)

\* validar_plano_completo has returned
Validated == lastCall.op = "validar_plano_completo"

\* the workouts of the plan it was called on, and of the plan it returned
DraftTreinos == IF Validated THEN lastCall.treinos ELSE <<>>

ValidatedTreinos == IF Validated THEN lastCall.outcome ELSE <<>>

\* a workout has every required field
WellFormed(treino) ==
    /\ {"tipo", "parte_principal"} \subseteq DOMAIN treino
    /\ {"distancia", "duracao", "ritmo"} \subseteq DOMAIN treino.parte_principal

AllWellFormed(treinos) == \A i \in 1..Len(treinos) : WellFormed(treinos[i])

DiasDaSemana ==
    {"Segunda", "Terça", "Quarta", "Quinta", "Sexta", "Sábado", "Domingo"}

\* the number of workouts of a plan on a day
TreinosNoDia(treinos, dia) ==
    Cardinality({i \in 1..Len(treinos) : DiaIs(treinos[i], dia)})

\* the workouts of a plan that are a Longo on another day than Sábado
LongosForaDoSabado(treinos) ==
    {i \in 1..Len(treinos) : treinos[i].tipo = "Longo" /\ ~DiaIs(treinos[i], "Sábado")}

\* C21: when the validator finds a Longo that is not on Sábado it moves it
\* to Sábado and swaps it with the workout scheduled there: for a draft
\* with one workout a day at most, one such Longo and a workout on Sábado,
\* the plan it returns has as many workouts on each day as the draft, so
\* no day of it holds two workouts.
C21_LongoSwappedWithSabado ==
    (/\ Validated
     /\ AllWellFormed(DraftTreinos)
     /\ \A dia \in DiasDaSemana : TreinosNoDia(DraftTreinos, dia) <= 1
     /\ Cardinality(LongosForaDoSabado(DraftTreinos)) = 1
     /\ TreinosNoDia(DraftTreinos, "Sábado") = 1)
        => \A dia \in DiasDaSemana :
               /\ TreinosNoDia(ValidatedTreinos, dia) = TreinosNoDia(DraftTreinos, dia)
               /\ TreinosNoDia(ValidatedTreinos, dia) <= 1

\* the validator has returned the plan for a draft with a Base on Sábado
\* and a Longo on Terça: both workouts are on Sábado now, none on Terça
C21_Witness ==
    /\ Validated
    /\ Len(DraftTreinos) = 2
    /\ AllWellFormed(DraftTreinos)
    /\ DraftTreinos[1].tipo = "Base" /\ DiaIs(DraftTreinos[1], "Sábado")
    /\ DraftTreinos[2].tipo = "Longo" /\ DiaIs(DraftTreinos[2], "Terça")
    /\ ValidatedTreinos[1].tipo = "Base" /\ DiaIs(ValidatedTreinos[1], "Sábado")
    /\ ValidatedTreinos[2].tipo = "Longo" /\ DiaIs(ValidatedTreinos[2], "Sábado")
    /\ TreinosNoDia(ValidatedTreinos, "Terça") = 0


\* the rounding allowed in comparisons of distances, 0.000001 km
Tolerance ==
    FloatMul(FloatDiv(FromInt(1), FromInt(1000)), FloatDiv(FromInt(1), FromInt(1000)))

FloatNear(a, b) == FloatLess(FloatAbsDiff(a, b), Tolerance)

\* a workout is a Longo with a distance
IsLongo(treino) ==
    /\ "tipo" \in DOMAIN treino
    /\ treino.tipo = "Longo"
    /\ "parte_principal" \in DOMAIN treino
    /\ "distancia" \in DOMAIN treino.parte_principal

\* the long runs of a plan before workout j
EarlierLongos(treinos, j) == {i \in 1..(j - 1) : IsLongo(treinos[i])}

\* 1.10 times the distance of the nearest long run before workout j
LongoCap(treinos, j) ==
    FloatMul(treinos[Last(EarlierLongos(treinos, j))].parte_principal.distancia,
             FromTenths(11))

\* C22: in every plan the validator returns, a Longo with an earlier Longo
\* has at most 1.10 times the distance of the nearest earlier Longo of the
\* returned plan; one that was over this cap in the draft has been set to
\* exactly 1.10 times that distance, and one within the cap has kept its
\* distance (distances compared up to rounding).
C22_LongoWithinCap ==
    Validated
        => \A j \in 1..Len(ValidatedTreinos) :
               (IsLongo(ValidatedTreinos[j]) /\ EarlierLongos(ValidatedTreinos, j) # {})
                   => /\ \/ FloatLess(ValidatedTreinos[j].parte_principal.distancia,
                                      LongoCap(ValidatedTreinos, j))
                         \/ FloatNear(ValidatedTreinos[j].parte_principal.distancia,
                                      LongoCap(ValidatedTreinos, j))
                      /\ FloatNear(ValidatedTreinos[j].parte_principal.distancia,
                                   IF FloatLess(LongoCap(ValidatedTreinos, j),
                                                DraftTreinos[j].parte_principal.distancia)
                                   THEN LongoCap(ValidatedTreinos, j)
                                   ELSE DraftTreinos[j].parte_principal.distancia)

\* the validator has returned the plan for a Longo of 14 km, a workout
\* without a type and a Longo of 16.8 km: the second Longo still has its
\* 16.8 km, 20% more than the first
C22_Witness ==
    /\ Validated
    /\ Len(ValidatedTreinos) = 3
    /\ IsLongo(ValidatedTreinos[1])
    /\ FloatEq(ValidatedTreinos[1].parte_principal.distancia, FromTenths(140))
    /\ "tipo" \notin DOMAIN DraftTreinos[2]
    /\ IsLongo(ValidatedTreinos[3])
    /\ FloatEq(ValidatedTreinos[3].parte_principal.distancia, FromTenths(168))


\* a pace "m:ss" of digits, other than 0:00
Parseable(ritmo) ==
    /\ Dashes(ritmo) = {}
    /\ Cardinality(Positions(ritmo, ":")) = 1
    /\ AllDigits(SubSeq(ritmo, 1, First(Positions(ritmo, ":")) - 1))
    /\ AllDigits(SubSeq(ritmo, First(Positions(ritmo, ":")) + 1, Len(ritmo)))
    /\ First(Positions(ritmo, ":")) \notin {1, Len(ritmo)}
    /\ SegundosDoRitmo(ritmo) > 0

\* a workout with a type other than Descanso, every field of the main part
\* and a pace that parses
NonRest(treino) ==
    /\ WellFormed(treino)
    /\ treino.tipo # "Descanso"
    /\ Parseable(treino.parte_principal.ritmo)

\* a pace "m:ss" in minutes per km
MinutosPorKm(ritmo) == FloatDiv(FromInt(SegundosDoRitmo(ritmo)), FromInt(60))

\* |distance - duration / pace| <= 0.5 km
Consistent(treino) ==
    ~FloatLess(FromTenths(5),
               FloatAbsDiff(FloatDiv(FromInt(treino.parte_principal.duracao),
                                     MinutosPorKm(treino.parte_principal.ritmo)),
                            treino.parte_principal.distancia))

\* C23: every workout of a plan the validator returns that is no rest day
\* has |distance - duration / pace| <= 0.5 km, the default workout the
\* validator substitutes included; a workout of the draft that was not
\* consistent has kept its distance and has the whole minutes of distance x
\* pace as its duration (a Longo aside, whose distance the cap may change).
C23_DistanceConsistentWithDuration ==
    Validated
        => \A j \in 1..Len(ValidatedTreinos) :
               /\ NonRest(ValidatedTreinos[j]) => Consistent(ValidatedTreinos[j])
               /\ (/\ NonRest(DraftTreinos[j])
                   /\ DraftTreinos[j].tipo # "Longo"
                   /\ ~DiaIs(DraftTreinos[j], "Domingo")
                   /\ ~Consistent(DraftTreinos[j]))
                      => /\ NonRest(ValidatedTreinos[j])
                         /\ FloatEq(ValidatedTreinos[j].parte_principal.distancia,
                                    DraftTreinos[j].parte_principal.distancia)
                         /\ ValidatedTreinos[j].parte_principal.duracao =
                                Trunc(FloatMul(DraftTreinos[j].parte_principal.distancia,
                                               MinutosPorKm(DraftTreinos[j].parte_principal.ritmo)))

\* the validator has returned the default workout for a Base without a
\* pace, the only workout of the draft: 5 km, 30 minutes at 7:00, which
\* give 4.29 km
C23_Witness ==
    /\ Validated
    /\ Len(DraftTreinos) = 1
    /\ "tipo" \in DOMAIN DraftTreinos[1]
    /\ DraftTreinos[1].tipo = "Base"
    /\ "parte_principal" \in DOMAIN DraftTreinos[1]
    /\ "ritmo" \notin DOMAIN DraftTreinos[1].parte_principal
    /\ ValidatedTreinos[1] = CriarTreinoPadrao
    /\ NonRest(ValidatedTreinos[1])
    /\ ~Consistent(ValidatedTreinos[1])


\* the workouts of a plan that lack a required field
Malformed(treinos) == {i \in 1..Len(treinos) : ~WellFormed(treinos[i])}

\* a workout as the validator leaves it: a Longo on Sábado, a Descanso when
\* on Domingo, distance and duration consistent
Repaired(treino) ==
    /\ WellFormed(treino)
    /\ treino.tipo = "Longo" => DiaIs(treino, "Sábado")
    /\ DiaIs(treino, "Domingo") => treino.tipo = "Descanso"
    /\ NonRest(treino) => Consistent(treino)

\* C24: validation does not abandon the plan for one malformed workout: for
\* a draft in which one workout lacks a required field (type, main part,
\* distance, duration or pace) the validator returns a plan in which
\* exactly that workout is the default Base workout, and every other
\* workout has been checked and repaired.
C24_OnlyMalformedWorkoutReplaced ==
    (Validated /\ Cardinality(Malformed(DraftTreinos)) = 1)
        => /\ Len(ValidatedTreinos) = Len(DraftTreinos)
           /\ \A i \in 1..Len(DraftTreinos) :
                  IF i \in Malformed(DraftTreinos)
                  THEN ValidatedTreinos[i] = CriarTreinoPadrao
                  ELSE ValidatedTreinos[i] # CriarTreinoPadrao
                       /\ Repaired(ValidatedTreinos[i])

\* the validator has returned the plan for a workout without a type
\* followed by an Intervalado on Domingo: the first is not the default
\* workout and the second is still an Intervalado
C24_Witness ==
    /\ Validated
    /\ Len(DraftTreinos) = 2
    /\ Malformed(DraftTreinos) = {1}
    /\ "tipo" \notin DOMAIN DraftTreinos[1]
    /\ ValidatedTreinos[1] = DraftTreinos[1]
    /\ DiaIs(ValidatedTreinos[2], "Domingo")
    /\ ValidatedTreinos[2].tipo = "Intervalado"


\* C30: validation is idempotent: the validator, called on the plan it
\* returned, returns the same plan.
C30_ValidationIdempotent ==
    (Validated /\ Vez = 2) => ValidatedTreinos = DraftTreinos

\* the validator has been called on a plan it had returned, whose only
\* workout was its default workout with 30 minutes, and has returned the
\* workout with 35 minutes
C30_Witness ==
    /\ Validated
    /\ Vez = 2
    /\ DraftTreinos = <<CriarTreinoPadrao>>
    /\ ValidatedTreinos[1].parte_principal.duracao = 35
    /\ ValidatedTreinos # DraftTreinos
=============================================================================
